---- MODULE Spec2Model ----
(***************************************************************************)
(* Verification model of the ElizaBotA Match Show bot.                     *)
(*                                                                         *)
(* The state machines of this module each have their own specification;   *)
(* the variables of the other machines stay at their initial values:       *)
(*   InstanceSpec    the single-instance file lock                         *)
(*                   (simple_instance_manager.py / instance_manager.py)    *)
(*   ResilienceSpec  ResilientBotManager.run_with_resilience               *)
(*                   (connection_resilience.py)                            *)
(*   StartSpec       Bot.on_start with initialize_services (main.py)       *)
(*   ChatSpec        Bot.on_chat: the room-chat commands (main.py)         *)
(*   RegSpec         Bot.on_whisper and Bot.on_message with the            *)
(*                   registration conversation (main.py)                   *)
(*   ErazeSpec       the owner's "!eraze" / "!confirm-eraze" dialogue      *)
(*                   (main.py)                                             *)
(*   EmoteSpec       the emote loops (functions/emote_system.py)           *)
(*   LauncherSpec    ResilientBotLauncher.launch_bot, with                 *)
(*                   LauncherFairSpec for liveness (resilient_launcher.py) *)
(*   ManagerSpec     BotManager of the web server (webserver.py)           *)
(*   PoolSpec        ConnectionPool (connection_pool.py)                   *)
(*   CollectionSpec  the registrations collection written by               *)
(*                   save_registration (db/mongo_client.py)                *)
(*   ConcurrentSpec  executions of process_registration_step interleaved   *)
(*                   at their awaits (main.py)                             *)
(***************************************************************************)
EXTENDS Integers, Sequences, FiniteSets, TLC

Min(a, b) == IF a <= b THEN a ELSE b

(***************************************************************************)
(* The state.                                                              *)
(***************************************************************************)
\* The single-instance lock (PART 1)
VARIABLES
  usePsutil,    \* TRUE: instance_manager.py, FALSE: simple_instance_manager.py
  cmdMatch,     \* psutil only: bot_name.lower() occurs in the processes' cmdline
  im_pc,        \* position of each process
  lock_fd,      \* self.lock_fd: inode the process has open, 0 = None
  lockPath,     \* inode that /tmp/ElizaBot.lock names, 0 = no such file
  flockHolder,  \* per inode: process whose open file holds LOCK_EX, 0 = none
  pidFile,      \* pid written in /tmp/ElizaBot.pid, 0 = no such file
  existing_pid, \* result of check_existing_instance, 0 = None
  victims,      \* processes kill_existing_instances still has to visit
  victim,       \* process just sent SIGTERM, 0 = none
  signalledBy   \* process whose kill_existing_instances signalled this one, 0 = none

imVars == <<usePsutil, cmdMatch, im_pc, lock_fd, lockPath, flockHolder, pidFile,
            existing_pid, victims, victim, signalledBy>>

\* ResilientBotManager (PART 2)
VARIABLES
  rm_pc,               \* "idle", "session", "backoff", "stopped"
  running,             \* self.running
  reconnect_attempts,  \* self.reconnect_attempts
  lastDelay,           \* the delay handle_connection_error slept last, 0 = none
  prevDelay,           \* history: the wait before it in the same run of failures
  failStreak,          \* history: failed sessions since the last successful one
  stopReason           \* why the loop was left

rmVars == <<rm_pc, running, reconnect_attempts, lastDelay, prevDelay,
            failStreak, stopReason>>

\* The Bot (PART 3)
VARIABLES
  st_pc,                \* position of on_start
  attempt,              \* loop variable of initialize_services
  retry_delay,          \* retry_delay of initialize_services
  sleeps,               \* history: the asyncio.sleep calls of initialize_services
  db_calls,             \* history: number of initialize_db calls
  db_connected,         \* self.db_client and self.db_client.is_connected
  services_initialized, \* result of initialize_services
  bot_position,         \* self.bot_position: "unset", "default" or "saved"
  match_prompt_task,    \* self.match_prompt_task has been created
  hosts,                \* self.hosts
  vips,                 \* self.vips
  subscribers,          \* self.subscribers
  db_hosts,             \* bot_data document "hosts"
  db_vips,              \* bot_data document "vips"
  db_subscribers,       \* bot_data document "subscribers"
  db_position           \* bot_data document "bot_position" exists

startVars == <<st_pc, attempt, retry_delay, sleeps, db_calls, db_connected,
               services_initialized, bot_position, match_prompt_task, hosts,
               vips, subscribers, db_hosts, db_vips, db_subscribers, db_position>>

VARIABLES
  cb,       \* history: the callback that ran last and how it ended
  chat_cmd  \* history: sender and branch of the chat command handled last

VARIABLES
  registration_sessions,  \* self.registration_sessions
  registrations,          \* the registrations collection, by user_id
  eraze_pending,          \* history: the owner's direct message handled last
                          \* was "!eraze" and was answered with the warning
  age_rejected            \* history: the private message handled last was a
                          \* non-numeric answer to the age question

botVars == <<startVars, cb, chat_cmd, registration_sessions, registrations,
             eraze_pending, age_rejected>>

\* The emote loops (PART 4)
VARIABLES
  ACTIVE_LOOPS,  \* emote_system.ACTIVE_LOOPS: loop key -> task, 0 = no entry
  loop_tasks,    \* the tasks created for emote loops, in creation order
  emote_pc       \* per user: the loop the user's handler is about to start

emVars == <<ACTIVE_LOOPS, loop_tasks, emote_pc>>

\* ResilientBotLauncher (PART 5)
VARIABLES
  ln_pc,          \* position of launch_bot
  ln_running,     \* self.running
  restart_count,  \* self.restart_count
  bot_runs,       \* history: number of bot_main() calls
  last_run,       \* history: how the last bot run ended
  ln_result,      \* what launch_bot returned: "none", "True" or "False"
  cleaned,        \* history: cleanup() has run
  signalled       \* history: a signal arrived while a bot run was in progress

lnVars == <<ln_pc, ln_running, restart_count, bot_runs, last_run, ln_result,
            cleaned, signalled>>

\* BotManager (PART 6)
VARIABLES
  worker_id,         \* self.worker_id
  auto_start,        \* the auto_start argument of the constructor
  should_run,        \* self.should_run
  bm_pc,             \* position of start() / bot_supervisor
  bot_running,       \* self.bot_running
  bm_restart_count,  \* self.restart_count
  session_launched   \* history: run_bot has been called

bmVars == <<worker_id, auto_start, should_run, bm_pc, bot_running,
            bm_restart_count, session_launched>>

\* ConnectionPoolManager (PART 7)
VARIABLES
  connections,      \* self.connections, by bot id
  cleanup_tasks,    \* self.cleanup_tasks: pending _delayed_cleanup tasks per bot id
  in_body,          \* per bot id: a managed_connection body is running
  connection_lock,  \* self.connection_lock: "free" or the coroutine holding it
  last_entry        \* history: bot id and result of the last managed_connection

cpVars == <<connections, cleanup_tasks, in_body, connection_lock, last_entry>>

\* The registrations collection of the database (PART 8)
VARIABLES
  reg_collection,  \* db.registrations: the documents, in insertion order
  last_completed   \* history: per user, the data of the last registration
                   \* save_registration reported as saved, and whether the
                   \* user had a document then

dbVars == <<reg_collection, last_completed>>

\* Concurrent executions of process_registration_step (PART 9)
VARIABLES
  cc_task,       \* per task: position, user, document to save, and history
  cc_removed_by  \* history: per user, the task that deleted the session

ccVars == <<cc_task, cc_removed_by>>

lateVars == <<dbVars, ccVars>>

sideVars == <<emVars, lnVars, bmVars, cpVars, lateVars>>
vars == <<imVars, rmVars, botVars, sideVars>>

(***************************************************************************)
(* PART 1.  The single-instance lock.                                      *)
(*                                                                         *)
(* Processes are numbered 1..NumProcs; 0 stands for None / no file.        *)
(* An inode created by process p's open(lock_file, 'w') is numbered p (a   *)
(* process opens the lock file at most once, so the number is fresh).      *)
(***************************************************************************)
NumProcs == 3
Procs == 1..NumProcs


\* A process exists for the operating system (os.kill(pid, 0) succeeds).
Alive(p) == im_pc[p] \notin {"off", "exit0", "exit1", "dead"}

\* signal.signal(SIGTERM/SIGINT, self._signal_handler) has been executed.
HandlerInstalled(p) == im_pc[p] \in {"running", "rel_unlock", "rel_close",
                                      "rel_unlink_lock", "rel_unlink_pid"}

\* acquire_lock returned True and release_lock has not begun.
HoldsLock(p) == im_pc[p] = "running"

\* No process has been started.  FALSE, TRUE: simple_instance_manager.py;
\* TRUE, b: instance_manager.py on a host where the cmdline test gives b.
InitInstanceWith(psutil, match) ==
  /\ usePsutil = psutil
  /\ cmdMatch = match
  /\ im_pc = [p \in Procs |-> "off"]
  /\ lock_fd = [p \in Procs |-> 0]
  /\ lockPath = 0
  /\ flockHolder = [i \in Procs |-> 0]
  /\ pidFile = 0
  /\ existing_pid = [p \in Procs |-> 0]
  /\ victims = [p \in Procs |-> {}]
  /\ victim = [p \in Procs |-> 0]
  /\ signalledBy = [p \in Procs |-> 0]

InitInstance ==
  \E psutil \in BOOLEAN, match \in BOOLEAN :
    /\ ~psutil => match
    /\ InitInstanceWith(psutil, match)

\* The kernel's part of a process death: its open file is closed, which drops
\* the flock it held.
FlockAfterClose(p) ==
  [i \in Procs |-> IF flockHolder[i] = p THEN 0 ELSE flockHolder[i]]

\* The process named by the pid file counts as an existing instance.
IsExistingInstance(pid) ==
  IF usePsutil THEN Alive(pid) /\ cmdMatch ELSE Alive(pid)

\* A process is started and ensure_single_instance calls
\* check_existing_instance, then branches on its result.  A stale pid file
\* (its process is gone, or with psutil does not look like the bot) is
\* unlinked.  Processes are interchangeable, so they start in index order.
check_existing_instance(p) ==
  /\ im_pc[p] = "off"
  /\ \A q \in Procs : q < p => im_pc[q] # "off"
  /\ IF pidFile = 0
       THEN /\ existing_pid' = [existing_pid EXCEPT ![p] = 0]
            /\ im_pc' = [im_pc EXCEPT ![p] = "open"]
            /\ UNCHANGED pidFile
       ELSE IF IsExistingInstance(pidFile)
         THEN /\ existing_pid' = [existing_pid EXCEPT ![p] = pidFile]
              /\ im_pc' = [im_pc EXCEPT ![p] = "kill"]
              /\ UNCHANGED pidFile
         ELSE /\ existing_pid' = [existing_pid EXCEPT ![p] = 0]
              /\ pidFile' = 0
              /\ im_pc' = [im_pc EXCEPT ![p] = "open"]
  /\ UNCHANGED <<usePsutil, cmdMatch, lock_fd, lockPath, flockHolder,
                 victims, victim, signalledBy>>
  /\ UNCHANGED <<rmVars, botVars, sideVars>>

\* The processes kill_existing_instances visits: with psutil every process
\* whose cmdline holds the bot name except the caller, without it the one
\* process the pid file names now.
KillTargets(p) ==
  IF usePsutil
    THEN {q \in Procs : q # p /\ Alive(q) /\ cmdMatch}
    ELSE {q \in Procs : q = pidFile /\ Alive(q)}

\* kill_existing_instances goes on to the next process, or returns and
\* acquire_lock begins.
AfterVisit(left) == IF left = {} THEN "open" ELSE "kill_term"

\* kill_existing_instances begins: the set of processes to visit.
kill_existing_instances(p) ==
  /\ im_pc[p] = "kill"
  /\ victims' = [victims EXCEPT ![p] = KillTargets(p)]
  /\ im_pc' = [im_pc EXCEPT ![p] = AfterVisit(KillTargets(p))]
  /\ UNCHANGED <<usePsutil, cmdMatch, lock_fd, lockPath, flockHolder, pidFile,
                 existing_pid, victim, signalledBy>>
  /\ UNCHANGED <<rmVars, botVars, sideVars>>

\* Mutant of PcAfterSigterm: the handler returns without release_lock and
\* exit(0), so a running bot goes on running.
PcAfterSigtermIgnored(q) == IF HandlerInstalled(q) THEN im_pc[q] ELSE "dead"

\* The effect of SIGTERM on q: with the handler installed q runs
\* _signal_handler (release_lock, then exit(0)); while release_lock is already
\* running it goes on; before the handler is installed the default action
\* ends the process, and the kernel closes its file.
PcAfterSigterm(q) ==
  IF im_pc[q] = "running" THEN "rel_unlock"
  ELSE IF HandlerInstalled(q) THEN im_pc[q]
  ELSE "dead"

\* os.kill(pid, SIGTERM) / proc.terminate() on the next process to visit.
SendSigterm(p) ==
  /\ im_pc[p] = "kill_term"
  /\ victims[p] # {}
  /\ \E q \in victims[p] :
       /\ victims' = [victims EXCEPT ![p] = @ \ {q}]
       /\ IF Alive(q)
            THEN /\ victim' = [victim EXCEPT ![p] = q]
                 /\ signalledBy' = [signalledBy EXCEPT ![q] = p]
                 /\ im_pc' = [im_pc EXCEPT ![p] = "kill_wait",
                                           ![q] = PcAfterSigterm(q)]
                 /\ IF PcAfterSigterm(q) = "dead"
                      THEN /\ lock_fd' = [lock_fd EXCEPT ![q] = 0]
                           /\ flockHolder' = FlockAfterClose(q)
                      ELSE UNCHANGED <<lock_fd, flockHolder>>
            ELSE \* OSError / NoSuchProcess: the process is already gone
                 /\ im_pc' = [im_pc EXCEPT ![p] = AfterVisit(victims[p] \ {q})]
                 /\ UNCHANGED <<victim, signalledBy, lock_fd, flockHolder>>
  /\ UNCHANGED <<usePsutil, cmdMatch, lockPath, pidFile, existing_pid>>
  /\ UNCHANGED <<rmVars, botVars, sideVars>>

\* After time.sleep(2) / proc.wait(timeout=5): a process that still exists is
\* sent SIGKILL.
ForceKill(p) ==
  /\ im_pc[p] = "kill_wait"
  /\ LET q == victim[p] IN
       IF Alive(q)
         THEN /\ im_pc' = [im_pc EXCEPT ![p] = AfterVisit(victims[p]),
                                        ![q] = "dead"]
              /\ lock_fd' = [lock_fd EXCEPT ![q] = 0]
              /\ flockHolder' = FlockAfterClose(q)
         ELSE /\ im_pc' = [im_pc EXCEPT ![p] = AfterVisit(victims[p])]
              /\ UNCHANGED <<lock_fd, flockHolder>>
  /\ UNCHANGED <<usePsutil, cmdMatch, lockPath, pidFile, existing_pid,
                 victims, victim, signalledBy>>
  /\ UNCHANGED <<rmVars, botVars, sideVars>>

\* acquire_lock: self.lock_fd = open(self.lock_file, 'w') opens the inode the
\* path names, or creates one.
OpenLockFile(p) ==
  /\ im_pc[p] = "open"
  /\ IF lockPath = 0
       THEN /\ lockPath' = p
            /\ lock_fd' = [lock_fd EXCEPT ![p] = p]
       ELSE /\ lock_fd' = [lock_fd EXCEPT ![p] = lockPath]
            /\ UNCHANGED lockPath
  /\ im_pc' = [im_pc EXCEPT ![p] = "flock"]
  /\ UNCHANGED <<usePsutil, cmdMatch, flockHolder, pidFile, existing_pid,
                 victims, victim, signalledBy>>
  /\ UNCHANGED <<rmVars, botVars, sideVars>>

\* fcntl.flock(fd, LOCK_EX | LOCK_NB) succeeds when no other open file holds a
\* lock on the inode.
FlockSucceeds(p) == flockHolder[lock_fd[p]] \in {0, p}

\* acquire_lock: the flock call.  On failure the file is closed, acquire_lock
\* returns False and ensure_single_instance calls exit(1).
TryFlock(p) ==
  /\ im_pc[p] = "flock"
  /\ IF FlockSucceeds(p)
       THEN /\ flockHolder' = [flockHolder EXCEPT ![lock_fd[p]] = p]
            /\ im_pc' = [im_pc EXCEPT ![p] = "write_pid"]
            /\ UNCHANGED lock_fd
       ELSE /\ lock_fd' = [lock_fd EXCEPT ![p] = 0]
            /\ im_pc' = [im_pc EXCEPT ![p] = "exit1"]
            /\ UNCHANGED flockHolder
  /\ UNCHANGED <<usePsutil, cmdMatch, lockPath, pidFile, existing_pid,
                 victims, victim, signalledBy>>
  /\ UNCHANGED <<rmVars, botVars, sideVars>>

\* acquire_lock: the pid is written to the pid file, the atexit hook and the
\* signal handlers are registered and True is returned; the bot runs.  (A
\* SIGTERM between the write and signal.signal ends the process at once with
\* both files left behind, the state ForceKill leads to as well.)
WritePidFile(p) ==
  /\ im_pc[p] = "write_pid"
  /\ pidFile' = p
  /\ im_pc' = [im_pc EXCEPT ![p] = "running"]
  /\ UNCHANGED <<usePsutil, cmdMatch, lock_fd, lockPath, flockHolder,
                 existing_pid, victims, victim, signalledBy>>
  /\ UNCHANGED <<rmVars, botVars, sideVars>>

\* The running bot ends on its own (normal exit runs the atexit hook) or on a
\* SIGINT/SIGTERM from the operator: release_lock begins.
Shutdown(p) ==
  /\ im_pc[p] = "running"
  /\ im_pc' = [im_pc EXCEPT ![p] = "rel_unlock"]
  /\ UNCHANGED <<usePsutil, cmdMatch, lock_fd, lockPath, flockHolder, pidFile,
                 existing_pid, victims, victim, signalledBy>>
  /\ UNCHANGED <<rmVars, botVars, sideVars>>

\* release_lock: fcntl.flock(fd, LOCK_UN)
ReleaseUnlock(p) ==
  /\ im_pc[p] = "rel_unlock"
  /\ flockHolder' = FlockAfterClose(p)
  /\ im_pc' = [im_pc EXCEPT ![p] = "rel_close"]
  /\ UNCHANGED <<usePsutil, cmdMatch, lock_fd, lockPath, pidFile,
                 existing_pid, victims, victim, signalledBy>>
  /\ UNCHANGED <<rmVars, botVars, sideVars>>

\* release_lock: self.lock_fd.close(); self.lock_fd = None
ReleaseClose(p) ==
  /\ im_pc[p] = "rel_close"
  /\ lock_fd' = [lock_fd EXCEPT ![p] = 0]
  /\ im_pc' = [im_pc EXCEPT ![p] = "rel_unlink_lock"]
  /\ UNCHANGED <<usePsutil, cmdMatch, lockPath, flockHolder, pidFile,
                 existing_pid, victims, victim, signalledBy>>
  /\ UNCHANGED <<rmVars, botVars, sideVars>>

\* release_lock: if os.path.exists(lock_file): os.unlink(lock_file)
ReleaseUnlinkLock(p) ==
  /\ im_pc[p] = "rel_unlink_lock"
  /\ lockPath' = 0
  /\ im_pc' = [im_pc EXCEPT ![p] = "rel_unlink_pid"]
  /\ UNCHANGED <<usePsutil, cmdMatch, lock_fd, flockHolder, pidFile,
                 existing_pid, victims, victim, signalledBy>>
  /\ UNCHANGED <<rmVars, botVars, sideVars>>

\* release_lock: if os.path.exists(pid_file): os.unlink(pid_file); the
\* process then exits.
ReleaseUnlinkPid(p) ==
  /\ im_pc[p] = "rel_unlink_pid"
  /\ pidFile' = 0
  /\ im_pc' = [im_pc EXCEPT ![p] = "exit0"]
  /\ UNCHANGED <<usePsutil, cmdMatch, lock_fd, lockPath, flockHolder,
                 existing_pid, victims, victim, signalledBy>>
  /\ UNCHANGED <<rmVars, botVars, sideVars>>

(***************************************************************************)
(* PART 2.  ResilientBotManager.run_with_resilience.                       *)
(***************************************************************************)
max_reconnect_attempts == 50
base_delay == 5
max_delay == 300

\* Python evaluates base_delay * 2 ** n on unbounded integers.  Above this
\* exponent the product is known to exceed max_delay and the power is not
\* evaluated, so that the model's machine integers never overflow.
ExpLimit == 20


InitResilience ==
  /\ rm_pc = "idle"
  /\ running = FALSE
  /\ reconnect_attempts = 0
  /\ lastDelay = 0
  /\ prevDelay = 0
  /\ failStreak = 0
  /\ stopReason = "none"

Pow2(n) == 2 ^ n

\* Mutant of calculate_delay: 2 * n written for 2 ** n.
calculate_delay_linear(n) == Min(base_delay * (2 * n), max_delay)

\* calculate_delay with self.reconnect_attempts = n
calculate_delay(n) ==
  IF n > ExpLimit THEN max_delay ELSE Min(base_delay * Pow2(n), max_delay)

\* The while condition of run_with_resilience.
LoopCondition(isRunning, attempts) ==
  isRunning /\ attempts < max_reconnect_attempts

\* Mutant of AttemptsAfterSuccess: the counter is not reset.
AttemptsKeptAfterSuccess(n) == n

\* "self.reconnect_attempts = 0  # Reset on success"
AttemptsAfterSuccess(n) == 0

\* run_with_resilience up to the loop: running is set, the 5 s wait, then
\* get_credentials; a missing ROOM_ID or BOT_TOKEN raises ValueError, which
\* the outer handler logs before the finally clause clears running.
StartManager(credsOk) ==
  /\ rm_pc = "idle"
  /\ IF credsOk /\ LoopCondition(TRUE, reconnect_attempts)
       THEN /\ rm_pc' = "session"
            /\ running' = TRUE
            /\ UNCHANGED stopReason
       ELSE /\ rm_pc' = "stopped"
            /\ running' = FALSE
            /\ stopReason' = "critical_error"
  /\ UNCHANGED <<reconnect_attempts, lastDelay, prevDelay, failStreak>>
  /\ UNCHANGED <<imVars, botVars, sideVars>>

\* create_bot_session returned True: the counter is reset and the loop goes
\* round.
SessionSucceeds ==
  /\ rm_pc = "session"
  /\ reconnect_attempts' = AttemptsAfterSuccess(reconnect_attempts)
  /\ failStreak' = 0
  /\ prevDelay' = 0
  /\ IF LoopCondition(running, reconnect_attempts')
       THEN /\ rm_pc' = "session"
            /\ UNCHANGED <<running, stopReason>>
       ELSE /\ rm_pc' = "stopped"
            /\ running' = FALSE
            /\ stopReason' = "loop_condition"
  /\ UNCHANGED lastDelay
  /\ UNCHANGED <<imVars, botVars, sideVars>>

\* create_bot_session returned False (an exception or a cancellation inside
\* the session): "Bot session failed" is raised and handled by
\* reconnect_attempts += 1 and handle_connection_error, which computes the
\* delay and sleeps.
SessionFails ==
  /\ rm_pc = "session"
  /\ reconnect_attempts' = reconnect_attempts + 1
  /\ failStreak' = failStreak + 1
  /\ prevDelay' = IF failStreak = 0 THEN 0 ELSE lastDelay
  /\ lastDelay' = calculate_delay(reconnect_attempts')
  /\ rm_pc' = "backoff"
  /\ UNCHANGED <<running, stopReason>>
  /\ UNCHANGED <<imVars, botVars, sideVars>>

\* KeyboardInterrupt during the session: break.
SessionInterrupted ==
  /\ rm_pc = "session"
  /\ rm_pc' = "stopped"
  /\ running' = FALSE
  /\ stopReason' = "interrupted"
  /\ UNCHANGED <<reconnect_attempts, lastDelay, prevDelay, failStreak>>
  /\ UNCHANGED <<imVars, botVars, sideVars>>

\* The sleep of handle_connection_error ends: the cap is tested, and if it is
\* not reached the loop goes round.
BackoffEnds ==
  /\ rm_pc = "backoff"
  /\ IF reconnect_attempts >= max_reconnect_attempts
       THEN /\ rm_pc' = "stopped"
            /\ running' = FALSE
            /\ stopReason' = "max_attempts"
       ELSE IF LoopCondition(running, reconnect_attempts)
         THEN /\ rm_pc' = "session"
              /\ UNCHANGED <<running, stopReason>>
         ELSE /\ rm_pc' = "stopped"
              /\ running' = FALSE
              /\ stopReason' = "loop_condition"
  /\ UNCHANGED <<reconnect_attempts, lastDelay, prevDelay, failStreak>>
  /\ UNCHANGED <<imVars, botVars, sideVars>>

\* The task is cancelled during the sleep: CancelledError leaves the handler
\* and the function through the finally clause.
BackoffCancelled ==
  /\ rm_pc = "backoff"
  /\ rm_pc' = "stopped"
  /\ running' = FALSE
  /\ stopReason' = "cancelled"
  /\ UNCHANGED <<reconnect_attempts, lastDelay, prevDelay, failStreak>>
  /\ UNCHANGED <<imVars, botVars, sideVars>>

(***************************************************************************)
(* PART 3.  The Bot object of main.py.                                     *)
(*                                                                         *)
(* Users are numbered 1..NumUsers and a user's name stands for its id;     *)
(* the room owner is user 1.  0 stands for None.                           *)
(***************************************************************************)
NumUsers == 2
Users == 1..NumUsers
owner_id == 1

max_retries == 3
initial_retry_delay == 5
MIN_AGE == 18

\* The user-id lists a bot_data document may hold when the bot starts.
StoredLists == {<<>>, <<NumUsers>>}


\* Bot.__init__
InitBotFields ==
  /\ st_pc = "constructed"
  /\ attempt = 0
  /\ retry_delay = 0
  /\ sleeps = <<>>
  /\ db_calls = 0
  /\ db_connected = FALSE
  /\ services_initialized = FALSE
  /\ bot_position = "unset"
  /\ match_prompt_task = FALSE
  /\ hosts = <<>>
  /\ vips = <<>>
  /\ subscribers = <<>>

\* Bot.__init__, with the documents the database holds.
InitBotConstructed ==
  /\ InitBotFields
  /\ db_hosts \in StoredLists
  /\ db_vips \in StoredLists
  /\ db_subscribers \in StoredLists
  /\ db_position \in BOOLEAN

\* Bot.__init__, with an empty database.
InitBotEmpty ==
  /\ InitBotFields
  /\ db_hosts = <<>>
  /\ db_vips = <<>>
  /\ db_subscribers = <<>>
  /\ db_position = FALSE

\* on_start up to the call of initialize_services, and the first lines of
\* initialize_services.
on_start ==
  /\ st_pc = "constructed"
  /\ st_pc' = "connect"
  /\ attempt' = 0
  /\ retry_delay' = initial_retry_delay
  /\ UNCHANGED <<sleeps, db_calls, db_connected, services_initialized,
                 bot_position, match_prompt_task, hosts, vips, subscribers,
                 db_hosts, db_vips, db_subscribers, db_position>>
  /\ UNCHANGED <<sideVars, imVars, rmVars, cb, chat_cmd, registration_sessions, registrations,
                 eraze_pending, age_rejected>>

\* load_bot_data: the default position, replaced by the stored one when the
\* database is connected and get_bot_position returns it.
load_bot_data(connected, readOk) ==
  IF connected /\ readOk /\ db_position THEN "saved" ELSE "default"

\* Mutant of ShouldSleep: the wait is also made after the last attempt.
ShouldSleepAfterLast(a) == a < max_retries

\* "if attempt < max_retries - 1" of initialize_services
ShouldSleep(a) == a < max_retries - 1

\* One pass of the retry loop of initialize_services with a successful
\* connection: load_match_show_data reads the hosts, VIPs and subscribers
\* documents in this order until a read raises (loaded = number of documents
\* read), load_bot_data reads the position, and True is returned.
InitializeConnected(loaded, readOk) ==
  /\ st_pc = "connect"
  /\ db_calls' = db_calls + 1
  /\ db_connected' = TRUE
  /\ hosts' = IF loaded >= 1 THEN db_hosts ELSE hosts
  /\ vips' = IF loaded >= 2 THEN db_vips ELSE vips
  /\ subscribers' = IF loaded >= 3 THEN db_subscribers ELSE subscribers
  /\ bot_position' = load_bot_data(TRUE, readOk)
  /\ services_initialized' = TRUE
  /\ st_pc' = "post_init"
  /\ UNCHANGED <<attempt, retry_delay, sleeps, match_prompt_task,
                 db_hosts, db_vips, db_subscribers, db_position>>
  /\ UNCHANGED <<sideVars, imVars, rmVars, cb, chat_cmd, registration_sessions, registrations,
                 eraze_pending, age_rejected>>

\* One pass of the retry loop with a failed connection: initialize_db returns
\* None (self.db_client = None) or raises (self.db_client keeps its value).
InitializeFailed(raises) ==
  /\ st_pc = "connect"
  /\ db_calls' = db_calls + 1
  /\ db_connected' = IF raises THEN db_connected ELSE FALSE
  /\ st_pc' = IF ShouldSleep(attempt) THEN "retry_sleep" ELSE "fallback"
  /\ UNCHANGED <<attempt, retry_delay, sleeps, services_initialized,
                 bot_position, match_prompt_task, hosts, vips, subscribers,
                 db_hosts, db_vips, db_subscribers, db_position>>
  /\ UNCHANGED <<sideVars, imVars, rmVars, cb, chat_cmd, registration_sessions, registrations,
                 eraze_pending, age_rejected>>

\* await asyncio.sleep(retry_delay); retry_delay *= 2; the next attempt
RetrySleep ==
  /\ st_pc = "retry_sleep"
  /\ sleeps' = Append(sleeps, retry_delay)
  /\ retry_delay' = retry_delay * 2
  /\ attempt' = attempt + 1
  /\ st_pc' = "connect"
  /\ UNCHANGED <<db_calls, db_connected, services_initialized, bot_position,
                 match_prompt_task, hosts, vips, subscribers,
                 db_hosts, db_vips, db_subscribers, db_position>>
  /\ UNCHANGED <<sideVars, imVars, rmVars, cb, chat_cmd, registration_sessions, registrations,
                 eraze_pending, age_rejected>>

\* After the loop: load_bot_data for the default position; return False.
InitializeFallback ==
  /\ st_pc = "fallback"
  /\ bot_position' = load_bot_data(db_connected, TRUE)
  /\ services_initialized' = FALSE
  /\ st_pc' = "post_init"
  /\ UNCHANGED <<attempt, retry_delay, sleeps, db_calls, db_connected,
                 match_prompt_task, hosts, vips, subscribers,
                 db_hosts, db_vips, db_subscribers, db_position>>
  /\ UNCHANGED <<sideVars, imVars, rmVars, cb, chat_cmd, registration_sessions, registrations,
                 eraze_pending, age_rejected>>

\* The rest of on_start: load_bot_data, place_bot, fix_registration_data when
\* the services are up, start_match_prompt_task and the welcome chat, which
\* is the one call here that can raise.
FinishStart(readOk, chatOk) ==
  /\ st_pc = "post_init"
  /\ bot_position' = load_bot_data(db_connected, readOk)
  /\ match_prompt_task' = TRUE
  /\ st_pc' = IF chatOk THEN "ready" ELSE "start_failed"
  /\ UNCHANGED <<attempt, retry_delay, sleeps, db_calls, db_connected,
                 services_initialized, hosts, vips, subscribers,
                 db_hosts, db_vips, db_subscribers, db_position>>
  /\ UNCHANGED <<sideVars, imVars, rmVars, cb, chat_cmd, registration_sessions, registrations,
                 eraze_pending, age_rejected>>

(***************************************************************************)
(* PART 3b.  Bot.on_chat: the room-chat commands.                          *)
(*                                                                         *)
(* A chat message is a command word, spelled as a sequence of characters   *)
(* so that the prefix tests of on_chat are computed, followed by an        *)
(* optional user name (0 = no argument).                                   *)
(***************************************************************************)

\* raised: an exception was raised while the callback ran; propagated: one
\* left the callback; error_reply: an error reply was sent.
Outcome(kind, raised, propagated, error_reply) ==
  [kind |-> kind, raised |-> raised, propagated |-> propagated,
   error_reply |-> error_reply]

NoCallback == Outcome("none", FALSE, FALSE, FALSE)
NoChatCommand == [user |-> 0, branch |-> "none"]

\* The bot after an on_start that ran to completion: with the database
\* connected at the first attempt, or after three failed attempts.
InitBotStarted ==
  /\ st_pc = "ready"
  /\ db_connected \in BOOLEAN
  /\ services_initialized = db_connected
  /\ attempt = IF db_connected THEN 0 ELSE max_retries - 1
  /\ db_calls = IF db_connected THEN 1 ELSE max_retries
  /\ sleeps = IF db_connected THEN <<>>
              ELSE <<initial_retry_delay, 2 * initial_retry_delay>>
  /\ retry_delay = IF db_connected THEN initial_retry_delay
                   ELSE 4 * initial_retry_delay
  /\ db_hosts \in StoredLists
  /\ db_vips = <<>>
  /\ db_subscribers = <<>>
  /\ db_position = FALSE
  /\ bot_position = "default"
  /\ match_prompt_task = TRUE
  /\ hosts = IF db_connected THEN db_hosts ELSE <<>>
  /\ vips = <<>>
  /\ subscribers = <<>>

T_equip == <<"e", "q", "u", "i", "p">>
T_remove == <<"r", "e", "m", "o", "v", "e">>
T_bang_equip == <<"!">> \o T_equip
T_bang_remove == <<"!">> \o T_remove
T_bang_addhost == <<"!", "a", "d", "d", "h", "o", "s", "t">>
T_bang_removehost == <<"!">> \o T_remove \o <<"h", "o", "s", "t">>
T_hello == <<"h", "e", "l", "l", "o">>

ChatWords == {T_equip, T_bang_equip, T_bang_remove, T_bang_addhost,
              T_bang_removehost, T_hello}

\* message.lower().strip() of the message "<word> <name>"
lower_msg(word, arg) ==
  IF arg = 0 THEN word ELSE word \o <<" ", ToString(arg)>>

\* str.startswith
StartsWith(text, prefix) ==
  /\ Len(text) >= Len(prefix)
  /\ SubSeq(text, 1, Len(prefix)) = prefix

\* x in list
InList(list, x) == \E i \in 1..Len(list) : list[i] = x

\* list.remove(x): the first occurrence of x is removed.
RECURSIVE ListRemove(_, _)
ListRemove(list, x) ==
  IF list = <<>> THEN <<>>
  ELSE IF Head(list) = x THEN Tail(list)
  ELSE <<Head(list)>> \o ListRemove(Tail(list), x)

\* The chain of tests of on_chat, in the order of the code, for the commands
\* modelled; every other message falls through to the emote handling.
ChatBranch(text) ==
  IF StartsWith(text, T_bang_equip) \/ StartsWith(text, T_equip) THEN "equip"
  ELSE IF StartsWith(text, T_bang_remove) \/ StartsWith(text, T_remove) THEN "remove"
  ELSE IF StartsWith(text, T_bang_addhost) THEN "addhost"
  ELSE IF StartsWith(text, T_bang_removehost) THEN "removehost"
  ELSE "other"

\* is_privileged of on_chat
is_privileged(u) == u = owner_id \/ InList(hosts, u)

\* Mutant of IsOwner: the host commands test is_privileged.
IsOwnerOrHost(u) == is_privileged(u)

\* "if user.id == self.owner_id"
IsOwner(u) == u = owner_id

\* The operations that can raise inside a handler: "api" a get_room_users or
\* get_messages call, "db" a database call, "send" the reply sent by the
\* handler's body.
Faults == {"none", "api", "db", "send"}

ChatOutcome(h, d, r) == [hosts |-> h, db |-> d, raised |-> r]

\* The "!addhost" branch: owner only; the named user is looked up in the
\* room, appended to hosts, the list is written to bot_data when the
\* database is connected, and a chat line is sent.
AddHostBranch(u, arg, present, fault) ==
  IF ~IsOwner(u) \/ arg = 0 THEN ChatOutcome(hosts, db_hosts, fault = "send")
  ELSE IF fault = "api" THEN ChatOutcome(hosts, db_hosts, TRUE)
  ELSE IF ~present \/ InList(hosts, arg)
    THEN ChatOutcome(hosts, db_hosts, fault = "send")
  ELSE LET added == Append(hosts, arg) IN
    IF db_connected /\ fault = "db" THEN ChatOutcome(added, db_hosts, TRUE)
    ELSE ChatOutcome(added, IF db_connected THEN added ELSE db_hosts,
                     fault = "send")

\* The "!removehost" branch: owner only; the named user is looked up in the
\* room and removed from hosts, the list is written to bot_data when the
\* database is connected, and a chat line is sent.
RemoveHostBranch(u, arg, present, fault) ==
  IF ~IsOwner(u) \/ arg = 0 THEN ChatOutcome(hosts, db_hosts, fault = "send")
  ELSE IF fault = "api" THEN ChatOutcome(hosts, db_hosts, TRUE)
  ELSE IF ~(present /\ InList(hosts, arg))
    THEN ChatOutcome(hosts, db_hosts, fault = "send")
  ELSE LET removed == ListRemove(hosts, arg) IN
    IF db_connected /\ fault = "db" THEN ChatOutcome(removed, db_hosts, TRUE)
    ELSE ChatOutcome(removed, IF db_connected THEN removed ELSE db_hosts,
                     fault = "send")

\* functions.equip.equip and functions.remove.remove change the bot's outfit
\* through the SDK; they touch none of the lists of the Bot and may raise.
OutfitBranch(fault) == ChatOutcome(hosts, db_hosts, fault \in {"api", "send"})

\* The try block of on_chat.
ChatBody(u, word, arg, present, fault) ==
  LET branch == ChatBranch(lower_msg(word, arg)) IN
    IF branch \in {"equip", "remove"} THEN OutfitBranch(fault)
    ELSE IF branch = "addhost" THEN AddHostBranch(u, arg, present, fault)
    ELSE IF branch = "removehost" THEN RemoveHostBranch(u, arg, present, fault)
    ELSE ChatOutcome(hosts, db_hosts, fault = "send")

\* on_chat: the try block, and the handler of its except clause, which sends
\* "Sorry, something went wrong!" to the room; that send can raise as well.
on_chat(u, word, arg, present, fault, errReplyOk) ==
  /\ st_pc = "ready"
  /\ LET r == ChatBody(u, word, arg, present, fault) IN
       /\ hosts' = r.hosts
       /\ db_hosts' = r.db
       /\ chat_cmd' = [user |-> u, branch |-> ChatBranch(lower_msg(word, arg))]
       /\ cb' = Outcome("chat", r.raised, r.raised /\ ~errReplyOk,
                        r.raised /\ errReplyOk)
  /\ UNCHANGED <<st_pc, attempt, retry_delay, sleeps, db_calls, db_connected,
                 services_initialized, bot_position, match_prompt_task,
                 vips, subscribers, db_vips, db_subscribers, db_position>>
  /\ UNCHANGED <<sideVars, imVars, rmVars, registration_sessions, registrations,
                 eraze_pending, age_rejected>>

(***************************************************************************)
(* PART 3c.  Registration over whispers and direct messages.               *)
(*                                                                         *)
(* A free-text answer is kept as the name of the field it filled in; the   *)
(* age answer is kept as a number.                                         *)
(***************************************************************************)

NoSession == [type |-> "none", step |-> "none", data |-> {}, age |-> 0]
NoRegistration == [type |-> "none", registration_type |-> "none",
                   data |-> {}, age |-> 0]

\* What users send to the bot in private.
Messages == {"POP", "LOVE", "17", "18", "abc"}

\* Mutant of IsInt: every answer passes for a number.
IsIntAlways(m) == TRUE

\* int(message.strip()) succeeds
IsInt(m) == m \in {"17", "18"}

\* int(message.strip())
IntOf(m) == IF m = "17" THEN 17 ELSE 18

InSession(u) == registration_sessions[u] # NoSession

InitRegistration ==
  /\ registration_sessions = [u \in Users |-> NoSession]
  /\ registrations = [u \in Users |-> NoRegistration]

\* The session POP or LOVE creates.
NewSession(type) == [type |-> type, step |-> "name", data |-> {}, age |-> 0]

\* The key of data a step's answer is stored under.
FieldOf(step) == IF step = "type" THEN "type_preference" ELSE step

\* Mutant of NextStep: the gender question is skipped.
NextStepSkippingGender(step) ==
  CASE step = "name" -> "age"
    [] step = "age" -> "occupation"
    [] step = "gender" -> "occupation"
    [] step = "occupation" -> "country"
    [] step = "country" -> "type"
    [] step = "type" -> "continent"

\* session["step"] = ... in each branch of process_registration_step
NextStep(step) ==
  CASE step = "name" -> "age"
    [] step = "age" -> "gender"
    [] step = "gender" -> "occupation"
    [] step = "occupation" -> "country"
    [] step = "country" -> "type"
    [] step = "type" -> "continent"

\* "if age < 18"
IsUnderage(age) == age < MIN_AGE

\* The document save_registration writes with $set and upsert.
RegistrationDoc(session) ==
  [type |-> session.type, registration_type |-> session.type,
   data |-> session.data, age |-> session.age]

\* Mutant of SaveFailed: the result of save_registration is not looked at.
SaveNeverFails(fault) == FALSE

\* "if not success": save_registration returned False.
SaveFailed(fault) == fault \in {"db", "db_send"}

StepOutcome(sess, reg, exc) == [session |-> sess, registration |-> reg, exc |-> exc]

\* The try block of process_registration_step for user u in a session.
\* exc: an exception other than the ValueError of int() was raised.
\* A send that raises does so after the assignments before it.
RegistrationBody(u, m, fault) ==
  LET s == registration_sessions[u]
      reg == registrations[u]
      sendFails == fault \in {"send", "db_send"}
      answered == [s EXCEPT !.data = @ \cup {FieldOf(s.step)}]
  IN
    IF s.step = "age" THEN
      IF ~IsInt(m) THEN StepOutcome(s, reg, sendFails)
      ELSE IF IsUnderage(IntOf(m))
        THEN IF sendFails THEN StepOutcome(s, reg, TRUE)
             ELSE StepOutcome(NoSession, reg, FALSE)
      ELSE StepOutcome([answered EXCEPT !.age = IntOf(m), !.step = NextStep(s.step)],
                       reg, sendFails)
    ELSE IF s.step = "continent" THEN
      IF db_connected THEN
        IF SaveFailed(fault) THEN StepOutcome(answered, reg, sendFails)
        ELSE StepOutcome(NoSession, RegistrationDoc(answered), sendFails)
      ELSE IF sendFails THEN StepOutcome(answered, reg, TRUE)
           ELSE StepOutcome(NoSession, reg, FALSE)
    ELSE StepOutcome([answered EXCEPT !.step = NextStep(s.step)], reg, sendFails)

\* process_registration_step: the try block and its except clause, which
\* sends an error message and then deletes the session.  raised: an exception
\* was raised at all; escaped: one left the function (the error message could
\* not be sent, or the session to delete was already deleted).
process_registration_step(u, m, fault, errReplyOk) ==
  LET b == RegistrationBody(u, m, fault) IN
    IF ~b.exc
      THEN [session |-> b.session, registration |-> b.registration,
            raised |-> FALSE, escaped |-> FALSE, error_reply |-> FALSE]
    ELSE IF ~errReplyOk
      THEN [session |-> b.session, registration |-> b.registration,
            raised |-> TRUE, escaped |-> TRUE, error_reply |-> FALSE]
    ELSE [session |-> NoSession, registration |-> b.registration,
          raised |-> TRUE, escaped |-> b.session = NoSession, error_reply |-> TRUE]

\* POP and LOVE start a session (message.upper().strip() in a whisper,
\* message.lower().strip() in a direct message).
StartsRegistration(m) == m \in {"POP", "LOVE"}

\* Registration conversations are explored one at a time: a handler reads
\* and writes registration_sessions[user_id] and the registration document
\* of that user_id only, so the handlers of different users commute.
MayStartSession == \A v \in Users : ~InSession(v)

\* on_whisper with command_handler.  command_handler catches what
\* process_registration_step raises and returns it as an error string;
\* on_whisper whispers the response, falls back to a room chat line when the
\* whisper raises, and logs whatever is raised after that: nothing leaves
\* on_whisper.
on_whisper(u, m, known, fault, errReplyOk) ==
  /\ st_pc = "ready"
  /\ IF ~known
       THEN \* "Sorry, I couldn't identify you."
            /\ UNCHANGED <<registration_sessions, registrations>>
            /\ cb' = Outcome("whisper", fault = "send", FALSE,
                             fault = "send" /\ errReplyOk)
       ELSE IF InSession(u)
         THEN LET r == process_registration_step(u, m, fault, errReplyOk) IN
                /\ registration_sessions' =
                     [registration_sessions EXCEPT ![u] = r.session]
                /\ registrations' = [registrations EXCEPT ![u] = r.registration]
                /\ cb' = Outcome("whisper", r.raised, FALSE,
                                 r.error_reply \/ (r.escaped /\ errReplyOk))
       ELSE /\ IF StartsRegistration(m)
                 THEN /\ MayStartSession
                      /\ registration_sessions' =
                           [registration_sessions EXCEPT ![u] = NewSession(m)]
                 ELSE UNCHANGED registration_sessions
            /\ UNCHANGED registrations
            /\ cb' = Outcome("whisper", fault = "send", FALSE,
                             fault = "send" /\ errReplyOk)
  /\ UNCHANGED <<startVars>>
  /\ age_rejected' = (known /\ registration_sessions[u].step = "age" /\ ~IsInt(m))
  /\ UNCHANGED <<sideVars, imVars, rmVars, chat_cmd, eraze_pending>>

\* What users send to the bot in a direct message besides their answers.
T_eraze == "!eraze"
T_confirm_eraze == "!confirm-eraze"

\* The registrations collection after delete_many({}).
NoRegistrations == [v \in Users |-> NoRegistration]

\* The commands of process_direct_message for a user who is in no session:
\* "pop" and "love" create a session; "!eraze" answers the owner with a
\* warning when the database is connected; "!confirm-eraze" from the owner
\* deletes every registration when the database is connected (delete_many
\* may raise); every command ends with a send_message, which raises when
\* fault = "send".  pending: the owner was told to send "!confirm-eraze".
DirectCommand(u, m, fault) ==
  LET noChange == [session |-> NoSession, registrations |-> registrations,
                   pending |-> IF u = owner_id THEN FALSE ELSE eraze_pending,
                   raised |-> fault = "send"]
  IN
    IF StartsRegistration(m) THEN [noChange EXCEPT !.session = NewSession(m)]
    ELSE IF m = T_eraze /\ u = owner_id THEN
      [noChange EXCEPT !.pending = db_connected /\ fault # "send"]
    ELSE IF m = T_confirm_eraze /\ u = owner_id /\ db_connected THEN
      IF fault = "db" THEN [noChange EXCEPT !.raised = TRUE]
      ELSE [noChange EXCEPT !.registrations = NoRegistrations]
    ELSE noChange

\* on_message with process_direct_message.  get_messages is called before
\* the try block; what the try block raises is answered with send_message,
\* which can raise as well.
on_message(u, m, fault, errReplyOk) ==
  /\ st_pc = "ready"
  /\ IF fault = "api"
       THEN /\ UNCHANGED <<registration_sessions, registrations, eraze_pending>>
            /\ cb' = Outcome("message", TRUE, TRUE, FALSE)
       ELSE IF InSession(u)
         THEN LET r == process_registration_step(u, m, fault, errReplyOk) IN
                /\ registration_sessions' =
                     [registration_sessions EXCEPT ![u] = r.session]
                /\ registrations' = [registrations EXCEPT ![u] = r.registration]
                /\ eraze_pending' = IF u = owner_id THEN FALSE ELSE eraze_pending
                /\ cb' = Outcome("message", r.raised, r.escaped /\ ~errReplyOk,
                                 r.error_reply \/ (r.escaped /\ errReplyOk))
       ELSE LET r == DirectCommand(u, m, fault) IN
              /\ StartsRegistration(m) => MayStartSession
              /\ registration_sessions' =
                   [registration_sessions EXCEPT ![u] = r.session]
              /\ registrations' = r.registrations
              /\ eraze_pending' = r.pending
              /\ cb' = Outcome("message", r.raised, r.raised /\ ~errReplyOk,
                               r.raised /\ errReplyOk)
  /\ age_rejected' = (fault # "api" /\ registration_sessions[u].step = "age"
                        /\ ~IsInt(m))
  /\ UNCHANGED <<startVars>>
  /\ UNCHANGED <<sideVars, imVars, rmVars, chat_cmd>>

(***************************************************************************)
(* PART 4.  The emote loops (functions/emote_system.py).                   *)
(*                                                                         *)
(* A loop key f"single_{id}" / f"group_{id}" is the pair <<kind, id>>.     *)
(* Tasks are numbered in creation order; 0 stands for "no entry".  Every   *)
(* handler runs stop_user_loop, then awaits the SDK (chat, and             *)
(* get_room_users for a group loop), and only then creates and registers   *)
(* its task: the handler is two steps, and the done callback of a          *)
(* cancelled task is a step of the event loop of its own.                  *)
(***************************************************************************)
MaxTasks == 3

LoopKeys == {"single", "group"} \X Users
NoLoop == <<"none", 0>>

InitEmote ==
  /\ ACTIVE_LOOPS = [k \in LoopKeys |-> 0]
  /\ loop_tasks = <<>>
  /\ emote_pc = [u \in Users |-> NoLoop]

\* "while True: send_emote; sleep" of infinite_emote_loop_task and
\* group_emote_loop_task: the task sends emotes until it is cancelled.
Running(t) == loop_tasks[t].state = "running"

\* The entries stop_user_loop(user_id) selects.
Stopped(u) ==
  {k \in LoopKeys : /\ ACTIVE_LOOPS[k] # 0
                    /\ \/ k[2] = u
                       \/ loop_tasks[ACTIVE_LOOPS[k]].starter = u}

\* task.cancel(): a running task gets CancelledError at its await and ends,
\* its done callback is scheduled; a finished task is not affected.
Cancel(task) ==
  IF task.state = "running" THEN [task EXCEPT !.state = "cancelled"] ELSE task

\* stop_user_loop(user_id): the selected tasks are cancelled and their
\* entries deleted (the function has no await).
stop_user_loop(u) ==
  /\ ACTIVE_LOOPS' = [k \in LoopKeys |->
                        IF k \in Stopped(u) THEN 0 ELSE ACTIVE_LOOPS[k]]
  /\ loop_tasks' = [t \in DOMAIN loop_tasks |->
                      IF \E k \in Stopped(u) : ACTIVE_LOOPS[k] = t
                      THEN Cancel(loop_tasks[t]) ELSE loop_tasks[t]]

\* The permission test of loop and stoploop.
may_target_others(u) == u = owner_id \/ InList(hosts, u) \/ InList(vips, u)

\* The first half of a handler that starts a loop with key k for user u:
\* stop_user_loop(target), then the handler waits for the SDK.
BeginLoop(u, kind, target) ==
  /\ emote_pc[u] = NoLoop
  /\ Len(loop_tasks) < MaxTasks
  /\ stop_user_loop(target)
  /\ emote_pc' = [emote_pc EXCEPT ![u] = <<kind, target>>]

\* single_emote: "<name>" starts the user's single loop, "<name> all" the
\* user's group loop; a message that names no emote changes nothing.
single_emote(u, all, found) ==
  /\ IF found THEN BeginLoop(u, IF all THEN "group" ELSE "single", u)
     ELSE UNCHANGED emVars
  /\ UNCHANGED <<imVars, rmVars, botVars, lnVars, bmVars, cpVars, lateVars>>

\* number_emote: a number in 1..len(NUMBERED_EMOTES) starts the single loop.
number_emote(u, valid) ==
  /\ IF valid THEN BeginLoop(u, "single", u) ELSE UNCHANGED emVars
  /\ UNCHANGED <<imVars, rmVars, botVars, lnVars, bmVars, cpVars, lateVars>>

\* loop: "!loop name [@target]"; found: the target is in the room and the
\* emote exists.  The loops of the TARGET are stopped, the key is the
\* target's, the starter is the sender.
loop(u, target, found) ==
  /\ IF (target # u /\ ~may_target_others(u)) \/ ~found THEN UNCHANGED emVars
     ELSE BeginLoop(u, "single", target)
  /\ UNCHANGED <<imVars, rmVars, botVars, lnVars, bmVars, cpVars, lateVars>>

\* The second half of the handler: the awaited SDK calls returned
\* (completes) and the task is created and registered under its key,
\* replacing whatever entry the key has; or a call raised, or the room of
\* a group loop was empty, and no task is created.
StartLoopTask(u, completes) ==
  /\ emote_pc[u] # NoLoop
  /\ IF completes
     THEN /\ loop_tasks' = Append(loop_tasks, [key |-> emote_pc[u],
                                               starter |-> u,
                                               state |-> "running"])
          /\ ACTIVE_LOOPS' = [ACTIVE_LOOPS EXCEPT
                                ![emote_pc[u]] = Len(loop_tasks) + 1]
     ELSE UNCHANGED <<ACTIVE_LOOPS, loop_tasks>>
  /\ emote_pc' = [emote_pc EXCEPT ![u] = NoLoop]
  /\ UNCHANGED <<imVars, rmVars, botVars, lnVars, bmVars, cpVars, lateVars>>

\* stop: the universal stop command.
stop(u) ==
  /\ stop_user_loop(u)
  /\ UNCHANGED emote_pc
  /\ UNCHANGED <<imVars, rmVars, botVars, lnVars, bmVars, cpVars, lateVars>>

\* stoploop: "!stoploop [@target]".
stoploop(u, target, found) ==
  /\ IF (target # u /\ ~may_target_others(u)) \/ ~found
     THEN UNCHANGED <<ACTIVE_LOOPS, loop_tasks>>
     ELSE stop_user_loop(target)
  /\ UNCHANGED emote_pc
  /\ UNCHANGED <<imVars, rmVars, botVars, lnVars, bmVars, cpVars, lateVars>>

\* The done callback of a cancelled task, "lambda t: cleanup_loop(loop_key)":
\* the entry that the task's key has NOW is deleted.
cleanup_loop(t) ==
  /\ t \in DOMAIN loop_tasks
  /\ loop_tasks[t].state = "cancelled"
  /\ loop_tasks' = [loop_tasks EXCEPT ![t].state = "done"]
  /\ ACTIVE_LOOPS' = [ACTIVE_LOOPS EXCEPT ![loop_tasks[t].key] = 0]
  /\ UNCHANGED emote_pc
  /\ UNCHANGED <<imVars, rmVars, botVars, lnVars, bmVars, cpVars, lateVars>>

(***************************************************************************)
(* PART 5.  ResilientBotLauncher.launch_bot (resilient_launcher.py).       *)
(*                                                                         *)
(* ensure_single_instance (PART 1) enters by its result.  The pool of the  *)
(* launcher's process tracks no bot id (nothing in that process registers  *)
(* a connection), so both force_cleanup_all calls return at once.  The     *)
(* length of the restart delay is not part of the state.                   *)
(***************************************************************************)
max_restarts == 10

InitLauncher ==
  /\ ln_pc = "init"
  /\ ln_running = FALSE
  /\ restart_count = 0
  /\ bot_runs = 0
  /\ last_run = "none"
  /\ ln_result = "none"
  /\ cleaned = FALSE
  /\ signalled = FALSE

\* How a run of main() can end: it returned, or the session raised an
\* error whose text launch_bot looks at.
RunOutcomes == {"returned", "multilogin", "taskgroup", "general"}

\* main() of main.py: both credential checks end in a bare "return", the
\* end of the session falls off the end of the function, and the except
\* clause re-raises: whenever main() returns, it returns None.
bot_main(outcome) == [raised |-> outcome # "returned", success |-> FALSE]

\* launch_bot up to the loop: "except SystemExit: return False", else
\* running = True and the two signal handlers are registered.
launch_bot(lockOk) ==
  /\ ln_pc = "init"
  /\ IF lockOk
     THEN /\ ln_running' = TRUE
          /\ ln_pc' = "loop"
          /\ UNCHANGED ln_result
     ELSE /\ ln_pc' = "returned"
          /\ ln_result' = "False"
          /\ UNCHANGED ln_running
  /\ UNCHANGED <<restart_count, bot_runs, last_run, cleaned, signalled>>
  /\ UNCHANGED <<imVars, rmVars, botVars, emVars, bmVars, cpVars, lateVars>>

\* "while self.running and self.restart_count < self.max_restarts": the
\* body starts a bot run, the exit goes to cleanup.
StartRun ==
  /\ ln_pc = "loop"
  /\ IF ln_running /\ restart_count < max_restarts
     THEN ln_pc' = "run" /\ bot_runs' = bot_runs + 1
     ELSE ln_pc' = "cleanup" /\ UNCHANGED bot_runs
  /\ UNCHANGED <<ln_running, restart_count, last_run, ln_result, cleaned,
                 signalled>>
  /\ UNCHANGED <<imVars, rmVars, botVars, emVars, bmVars, cpVars, lateVars>>

\* kill_existing_instances called by the process that holds the lock.
\* simple_instance_manager sends SIGTERM and, two seconds later, SIGKILL to
\* the pid in the pid file, which is the caller's own: signal_handler runs
\* (running = False), then the process is killed.  instance_manager skips
\* os.getpid().
KillsItself == ~usePsutil

\* The bot run ends, and launch_bot goes on to "Check if we should restart".
RunEnds(outcome) ==
  LET r == bot_main(outcome) IN
    /\ ln_pc = "run"
    /\ last_run' = outcome
    /\ IF ~r.raised /\ r.success
       THEN /\ ln_pc' = "cleanup"
            /\ UNCHANGED <<ln_running, restart_count>>
       ELSE IF outcome = "multilogin" /\ KillsItself
       THEN /\ ln_pc' = "killed"
            /\ ln_running' = FALSE
            /\ UNCHANGED restart_count
       ELSE IF ln_running /\ restart_count < max_restarts - 1
       THEN /\ restart_count' = restart_count + 1
            /\ ln_pc' = "sleep"
            /\ UNCHANGED ln_running
       ELSE /\ ln_pc' = "cleanup"
            /\ UNCHANGED <<ln_running, restart_count>>
    /\ UNCHANGED <<bot_runs, ln_result, cleaned, signalled>>
    /\ UNCHANGED <<imVars, rmVars, botVars, emVars, bmVars, cpVars, lateVars>>

\* "await asyncio.sleep(self.restart_delay)" returns.
RestartSleepEnds ==
  /\ ln_pc = "sleep"
  /\ ln_pc' = "loop"
  /\ UNCHANGED <<ln_running, restart_count, bot_runs, last_run, ln_result,
                 cleaned, signalled>>
  /\ UNCHANGED <<imVars, rmVars, botVars, emVars, bmVars, cpVars, lateVars>>

\* signal_handler: SIGINT or SIGTERM arrives once the handlers are
\* registered; nothing is interrupted, the flag is cleared.
signal_handler ==
  /\ ln_pc \in {"loop", "run", "sleep", "cleanup"}
  /\ ln_running' = FALSE
  /\ signalled' = (signalled \/ ln_pc = "run")
  /\ UNCHANGED <<ln_pc, restart_count, bot_runs, last_run, ln_result, cleaned>>
  /\ UNCHANGED <<imVars, rmVars, botVars, emVars, bmVars, cpVars, lateVars>>

\* cleanup and the return value of launch_bot.
cleanup ==
  /\ ln_pc = "cleanup"
  /\ cleaned' = TRUE
  /\ ln_result' = IF restart_count >= max_restarts THEN "False" ELSE "True"
  /\ ln_pc' = "returned"
  /\ UNCHANGED <<ln_running, restart_count, bot_runs, last_run, signalled>>
  /\ UNCHANGED <<imVars, rmVars, botVars, emVars, bmVars, cpVars, lateVars>>

(***************************************************************************)
(* PART 6.  BotManager (webserver.py).                                     *)
(***************************************************************************)
bm_max_restarts == 20
WorkerIds == 0..1

\* Mutant of EnabledAtConstruction: auto_start is not looked at.
EnabledForPrimary(wid, auto) == wid = 0

\* BotManager.__init__: the value of should_run after construction.
EnabledAtConstruction(wid, auto) == wid = 0 /\ auto

InitBotManager ==
  /\ worker_id \in WorkerIds
  /\ auto_start \in BOOLEAN
  /\ should_run = EnabledAtConstruction(worker_id, auto_start)
  /\ bm_pc = "constructed"
  /\ bot_running = FALSE
  /\ bm_restart_count = 0
  /\ session_launched = FALSE

\* "while self.should_run:" of bot_supervisor, entered from pc: the body
\* sets bot_running and calls run_bot, the exit ends start().
SupervisorLoop ==
  /\ bm_pc' = IF should_run THEN "session" ELSE "returned"
  /\ bot_running' = should_run
  /\ session_launched' = (session_launched \/ should_run)

\* start(): worker 0 runs bot_supervisor to its end; any other worker
\* stands by in "while self.should_run: time.sleep(60)".
start ==
  /\ bm_pc \in {"constructed", "returned"}
  /\ IF worker_id = 0 THEN SupervisorLoop
     ELSE /\ bm_pc' = IF should_run THEN "standby" ELSE "returned"
          /\ UNCHANGED <<bot_running, session_launched>>
  /\ UNCHANGED <<worker_id, auto_start, should_run, bm_restart_count>>
  /\ UNCHANGED <<imVars, rmVars, botVars, emVars, lnVars, cpVars, lateVars>>

\* run_bot returned: finally, then the loop condition again.
SupervisedRunReturns ==
  /\ bm_pc = "session"
  /\ SupervisorLoop
  /\ UNCHANGED <<worker_id, auto_start, should_run, bm_restart_count>>
  /\ UNCHANGED <<imVars, rmVars, botVars, emVars, lnVars, cpVars, lateVars>>

\* run_bot raised: at the restart limit the loop is left, otherwise the
\* count goes up and the supervisor sleeps.
SupervisedRunRaises ==
  /\ bm_pc = "session"
  /\ bot_running' = FALSE
  /\ IF bm_restart_count >= bm_max_restarts
     THEN bm_pc' = "returned" /\ UNCHANGED bm_restart_count
     ELSE bm_pc' = "backoff" /\ bm_restart_count' = bm_restart_count + 1
  /\ UNCHANGED <<worker_id, auto_start, should_run, session_launched>>
  /\ UNCHANGED <<imVars, rmVars, botVars, emVars, lnVars, cpVars, lateVars>>

\* "await asyncio.sleep(delay)" returned: finally, then the loop condition.
SupervisorSleepEnds ==
  /\ bm_pc = "backoff"
  /\ SupervisorLoop
  /\ UNCHANGED <<worker_id, auto_start, should_run, bm_restart_count>>
  /\ UNCHANGED <<imVars, rmVars, botVars, emVars, lnVars, cpVars, lateVars>>

\* stop(): the flag is cleared; a worker standing by sees it and returns.
stop_manager ==
  /\ should_run' = FALSE
  /\ bm_pc' = IF bm_pc = "standby" THEN "returned" ELSE bm_pc
  /\ UNCHANGED <<worker_id, auto_start, bot_running, bm_restart_count,
                 session_launched>>
  /\ UNCHANGED <<imVars, rmVars, botVars, emVars, lnVars, cpVars, lateVars>>

(***************************************************************************)
(* PART 7.  ConnectionPoolManager (connection_pool.py).                    *)
(*                                                                         *)
(* Instead of last_connect_time the state keeps "since", the value of      *)
(* time.time() - state.last_connect_time in seconds, which is all the code *)
(* reads of it.  The code compares it with 10 and with 120 only, so a      *)
(* value from 10 up to 120 is kept as 10 and a larger one as 120           *)
(* (last_connect_time = 0, no attempt yet, is that far in the past).       *)
(* The "async with self.connection_lock" blocks of get_connection_state    *)
(* and cleanup_connection hold no await: they run when the lock is free.   *)
(***************************************************************************)
BotIds == {"test_bot_1", "test_bot_2"}
MaxCount == 1

\* A bot id that self.connections does not hold; with tracked = TRUE the
\* record is ConnectionState().
Untracked ==
  [tracked |-> FALSE, connected |-> FALSE, since |-> 120,
   connect_attempts |-> 0, connection_id |-> "None", error_count |-> 0]

InitPool ==
  /\ connections = [b \in BotIds |-> Untracked]
  /\ cleanup_tasks = [b \in BotIds |-> 0]
  /\ in_body = [b \in BotIds |-> FALSE]
  /\ connection_lock = "free"
  /\ last_entry = <<"none", "none">>

\* Mutant of can_connect: the cooldown test is missing.
can_connect_without_cooldown(b) ==
  LET state == [connections[b] EXCEPT !.tracked = TRUE] IN
    IF state.connect_attempts > 3
    THEN IF state.since < 120 THEN [ok |-> FALSE, state |-> state]
         ELSE [ok |-> TRUE, state |-> [state EXCEPT !.connect_attempts = 0]]
    ELSE [ok |-> TRUE, state |-> state]

\* can_connect(bot_id): the answer, and the state get_connection_state and
\* the reset of the attempts leave behind.
can_connect(b) ==
  LET state == [connections[b] EXCEPT !.tracked = TRUE] IN
    IF state.since < 10 THEN [ok |-> FALSE, state |-> state]
    ELSE IF state.connect_attempts > 3
    THEN IF state.since < 120 THEN [ok |-> FALSE, state |-> state]
         ELSE [ok |-> TRUE, state |-> [state EXCEPT !.connect_attempts = 0]]
    ELSE [ok |-> TRUE, state |-> state]

\* "async with managed_connection(bot_id)" up to the yield: ConnectionError
\* when can_connect says no, else register_connection_attempt and the body.
managed_connection(b) ==
  LET r == can_connect(b) IN
    /\ connection_lock = "free"
    /\ ~in_body[b]
    /\ r.ok => cleanup_tasks[b] < MaxCount
    /\ IF r.ok
       THEN /\ connections' =
                 [connections EXCEPT ![b] =
                    [r.state EXCEPT !.since = 0,
                                    !.connect_attempts = @ + 1]]
            /\ in_body' = [in_body EXCEPT ![b] = TRUE]
            /\ last_entry' = <<b, "entered">>
       ELSE /\ connections' = [connections EXCEPT ![b] = r.state]
            /\ last_entry' = <<b, "ConnectionError">>
            /\ UNCHANGED in_body
    /\ UNCHANGED <<cleanup_tasks, connection_lock>>
    /\ UNCHANGED <<imVars, rmVars, botVars, emVars, lnVars, bmVars, lateVars>>

\* register_connection_success, called in the body as the test does.
register_connection_success(b) ==
  /\ connection_lock = "free"
  /\ in_body[b]
  /\ connections' = [connections EXCEPT ![b] =
                       [@ EXCEPT !.connected = TRUE,
                                 !.connection_id = "conn_123",
                                 !.connect_attempts = 0,
                                 !.error_count = 0]]
  /\ UNCHANGED <<cleanup_tasks, in_body, connection_lock, last_entry>>
  /\ UNCHANGED <<imVars, rmVars, botVars, emVars, lnVars, bmVars, lateVars>>

\* The body ends: an exception goes through register_connection_failure,
\* and either way "finally" creates the _delayed_cleanup task.
leave_managed_connection(b, raised) ==
  /\ connection_lock = "free"
  /\ in_body[b]
  /\ raised => connections[b].error_count < MaxCount
  /\ connections' =
       IF raised
       THEN [connections EXCEPT ![b] =
               [@ EXCEPT !.connected = FALSE, !.connection_id = "None",
                         !.error_count = @ + 1]]
       ELSE connections
  /\ in_body' = [in_body EXCEPT ![b] = FALSE]
  /\ cleanup_tasks' = [cleanup_tasks EXCEPT ![b] = @ + 1]
  /\ UNCHANGED <<connection_lock, last_entry>>
  /\ UNCHANGED <<imVars, rmVars, botVars, emVars, lnVars, bmVars, lateVars>>

\* _delayed_cleanup after its sleep: cleanup_connection, and the done
\* callback discards the task.
delayed_cleanup(b) ==
  /\ connection_lock = "free"
  /\ cleanup_tasks[b] > 0
  /\ connections' =
       IF connections[b].tracked
       THEN [connections EXCEPT ![b] =
               [@ EXCEPT !.connected = FALSE, !.connection_id = "None"]]
       ELSE connections
  /\ cleanup_tasks' = [cleanup_tasks EXCEPT ![b] = @ - 1]
  /\ UNCHANGED <<in_body, connection_lock, last_entry>>
  /\ UNCHANGED <<imVars, rmVars, botVars, emVars, lnVars, bmVars, lateVars>>

\* force_cleanup_all: the lock is taken; with no bot id tracked the loop
\* has no pass, the tasks are cancelled and the lock is released.  With a
\* tracked bot id the first pass awaits cleanup_connection, which waits for
\* the lock that force_cleanup_all holds (asyncio.Lock is not reentrant).
force_cleanup_all ==
  /\ connection_lock = "free"
  /\ IF \E b \in BotIds : connections[b].tracked
     THEN /\ connection_lock' = "force_cleanup_all"
          /\ UNCHANGED cleanup_tasks
     ELSE /\ cleanup_tasks' = [b \in BotIds |-> 0]
          /\ UNCHANGED connection_lock
  /\ UNCHANGED <<connections, in_body, last_entry>>
  /\ UNCHANGED <<imVars, rmVars, botVars, emVars, lnVars, bmVars, lateVars>>

\* d seconds pass.
Tick(d) ==
  /\ connections' = [b \in BotIds |->
                       [connections[b] EXCEPT !.since =
                          IF @ + d >= 120 THEN 120
                          ELSE IF @ + d >= 10 THEN 10 ELSE @ + d]]
  /\ connections' # connections
  /\ UNCHANGED <<cleanup_tasks, in_body, connection_lock, last_entry>>
  /\ UNCHANGED <<imVars, rmVars, botVars, emVars, lnVars, bmVars, lateVars>>

(***************************************************************************)
(* PART 8.  The registrations collection (db/mongo_client.py).             *)
(*                                                                         *)
(* A document is a function from field names to values.  The seven         *)
(* answers of one registration conversation carry one value, the number of *)
(* the conversation they were given in (0 in a document of an earlier      *)
(* version of the bot), so that answers of different conversations can be  *)
(* told apart.                                                             *)
(***************************************************************************)
NumVersions == 2
Versions == 1..NumVersions

AllAnswers ==
  {"name", "age", "gender", "occupation", "country", "type_preference",
   "continent"}

NoData == [data |-> [none |-> TRUE], updated |-> FALSE]

\* A document written before save_registration set registration_type.
LegacyDoc(u, t) ==
  ("user_id" :> u) @@ ("type" :> t) @@ [f \in AllAnswers |-> 0]

\* connect creates a unique index on user_id: the collection the bot finds
\* holds at most one document per user_id.
InitCollection ==
  /\ \/ reg_collection = <<>>
     \/ \E u \in Users, t \in {"POP", "LOVE"} : reg_collection = <<LegacyDoc(u, t)>>
  /\ last_completed = [u \in Users |-> NoData]

\* The session's data when the continent answer has been stored and the
\* branch "if self.db_client and self.db_client.is_connected" has added
\* registration_type, type and user_id.
CompletedData(u, t, v) ==
  ("user_id" :> u) @@ ("registration_type" :> t) @@ ("type" :> t)
    @@ [f \in AllAnswers |-> v]

\* save_registration, "Ensure type and registration_type are consistent":
\* the data has no nested "data" object, so the elif branches decide.
ConsistentTypes(data) ==
  IF "type" \in DOMAIN data
    THEN ("registration_type" :> data["type"]) @@ data
  ELSE IF "registration_type" \in DOMAIN data
    THEN ("type" :> data["registration_type"]) @@ data
  ELSE data

\* The positions of the documents a filter {"user_id": uid} matches.
Matching(coll, uid) == {i \in 1..Len(coll) : coll[i]["user_id"] = uid}

First(S) == CHOOSE i \in S : \A j \in S : i <= j

\* Mutant of update_one: the document is inserted whether or not one matches.
insert_one(coll, uid, flat_data) == Append(coll, flat_data)

\* update_one({"user_id": uid}, {"$set": flat_data}, upsert=True): the first
\* matching document gets the fields of flat_data and keeps its others;
\* without a match the document is inserted.
update_one(coll, uid, flat_data) ==
  IF Matching(coll, uid) = {} THEN Append(coll, flat_data)
  ELSE [coll EXCEPT ![First(Matching(coll, uid))] = flat_data @@ @]

\* save_registration(data): the collection afterwards and the value
\* returned.  writeOk = FALSE: update_one raises, or reports neither a match
\* nor an upsert.
save_registration(coll, data, writeOk) ==
  LET flat_data == ConsistentTypes(data) IN
    IF "user_id" \notin DOMAIN flat_data \/ ~writeOk
      THEN [collection |-> coll, success |-> FALSE]
      ELSE [collection |-> update_one(coll, flat_data["user_id"], flat_data),
            success |-> TRUE]

\* The continent branch of process_registration_step with the database
\* connected, for a session of type t whose answers are those of
\* conversation v.
ContinentAnswer(u, t, v, writeOk) ==
  /\ st_pc = "ready" /\ db_connected
  /\ LET data == CompletedData(u, t, v)
         r == save_registration(reg_collection, data, writeOk)
     IN /\ reg_collection' = r.collection
        /\ last_completed' =
             IF r.success
               THEN [last_completed EXCEPT ![u] =
                       [data |-> data,
                        updated |-> Matching(reg_collection, u) # {}]]
             ELSE last_completed
  /\ UNCHANGED <<imVars, rmVars, botVars, emVars, lnVars, bmVars, cpVars, ccVars>>

\* "!rem <username>": delete_one({"user_id": target_user_id}).
rem(u) ==
  /\ st_pc = "ready" /\ db_connected
  /\ Matching(reg_collection, u) # {}
  /\ reg_collection' =
       LET k == First(Matching(reg_collection, u)) IN
         [i \in 1..(Len(reg_collection) - 1) |->
            IF i < k THEN reg_collection[i] ELSE reg_collection[i + 1]]
  /\ UNCHANGED last_completed
  /\ UNCHANGED <<imVars, rmVars, botVars, emVars, lnVars, bmVars, cpVars, ccVars>>

\* The tasks of PART 9, before any message arrives.
NumTasks == 2
Tasks == 1..NumTasks

IdleTask ==
  [pc |-> "idle", user |-> 0, doc |-> NoRegistration, key_error |-> "none",
   saved |-> FALSE, told_error |-> FALSE]

InitConcurrent ==
  /\ cc_task = [t \in Tasks |-> IdleTask]
  /\ cc_removed_by = [u \in Users |-> 0]

\* The collection and the tasks where a specification leaves them alone.
InitLate ==
  /\ reg_collection = <<>>
  /\ last_completed = [u \in Users |-> NoData]
  /\ InitConcurrent

\* The machines a specification leaves alone, as constructed; a BotManager
\* is constructed the way start_bot does, BotManager(worker_id=0).
InitSide ==
  /\ InitEmote /\ InitLauncher /\ InitPool /\ InitLate
  /\ InitBotManager /\ worker_id = 0 /\ ~auto_start

(***************************************************************************)
(* The specifications.                                                     *)
(***************************************************************************)

InstanceNext ==
  \E p \in Procs :
    \/ check_existing_instance(p)
    \/ kill_existing_instances(p)
    \/ SendSigterm(p)
    \/ ForceKill(p)
    \/ OpenLockFile(p)
    \/ TryFlock(p)
    \/ WritePidFile(p)
    \/ Shutdown(p)
    \/ ReleaseUnlock(p)
    \/ ReleaseClose(p)
    \/ ReleaseUnlinkLock(p)
    \/ ReleaseUnlinkPid(p)

InstanceInit ==
  /\ InitInstance /\ InitResilience /\ InitBotEmpty /\ InitRegistration
  /\ cb = NoCallback /\ chat_cmd = NoChatCommand /\ eraze_pending = FALSE
  /\ age_rejected = FALSE
  /\ InitSide

InstanceSpec == InstanceInit /\ [][InstanceNext]_vars

ResilienceNext ==
  \/ \E credsOk \in BOOLEAN : StartManager(credsOk)
  \/ SessionSucceeds
  \/ SessionFails
  \/ SessionInterrupted
  \/ BackoffEnds
  \/ BackoffCancelled

ResilienceInit ==
  /\ InitInstanceWith(FALSE, TRUE) /\ InitResilience /\ InitBotEmpty
  /\ InitRegistration
  /\ cb = NoCallback /\ chat_cmd = NoChatCommand /\ eraze_pending = FALSE
  /\ age_rejected = FALSE
  /\ InitSide

ResilienceSpec == ResilienceInit /\ [][ResilienceNext]_vars

StartNext ==
  \/ on_start
  \/ \E loaded \in 0..3, readOk \in BOOLEAN : InitializeConnected(loaded, readOk)
  \/ \E raises \in BOOLEAN : InitializeFailed(raises)
  \/ RetrySleep
  \/ InitializeFallback
  \/ \E readOk \in BOOLEAN, chatOk \in BOOLEAN : FinishStart(readOk, chatOk)

StartInit ==
  /\ InitInstanceWith(FALSE, TRUE) /\ InitResilience /\ InitBotConstructed /\ InitRegistration
  /\ cb = NoCallback /\ chat_cmd = NoChatCommand /\ eraze_pending = FALSE
  /\ age_rejected = FALSE
  /\ InitSide

StartSpec == StartInit /\ [][StartNext]_vars

\* A chat line.  An input is enumerated only where the handler reads it.
ChatLine(u, word) ==
  LET hostCommand == word \in {T_bang_addhost, T_bang_removehost} IN
    \E arg \in (IF hostCommand THEN 0..NumUsers ELSE {0}),
       fault \in (IF hostCommand THEN Faults ELSE {"none", "send"}) :
      \E present \in (IF arg = 0 THEN {TRUE} ELSE BOOLEAN),
         errReplyOk \in (IF fault = "none" THEN {TRUE} ELSE BOOLEAN) :
        on_chat(u, word, arg, present, fault, errReplyOk)

ChatNext == \E u \in Users, word \in ChatWords : ChatLine(u, word)

ChatInit ==
  /\ InitInstanceWith(FALSE, TRUE) /\ InitResilience /\ InitBotStarted /\ InitRegistration
  /\ cb = NoCallback /\ chat_cmd = NoChatCommand /\ eraze_pending = FALSE
  /\ age_rejected = FALSE
  /\ InitSide

ChatSpec == ChatInit /\ [][ChatNext]_vars

\* The faults a private message's handling can meet: a send, the database
\* write of the last step (alone, or with the send after it), and for a
\* direct message the get_messages call.
FaultsFor(u, direct) ==
  {"none", "send"}
    \cup (IF registration_sessions[u].step = "continent" /\ db_connected
            THEN {"db", "db_send"} ELSE {})
    \cup (IF direct THEN {"api"} ELSE {})

\* A whisper from a user the bot can identify.
Whisper(u, m) ==
  \E fault \in FaultsFor(u, FALSE) :
    \E errReplyOk \in (IF fault = "none" THEN {TRUE} ELSE BOOLEAN) :
      on_whisper(u, m, TRUE, fault, errReplyOk)

\* A whisper from a user get_username_from_id finds neither in the room nor
\* in the database.
WhisperUnknown(u, m) ==
  \E fault \in {"none", "send"} :
    \E errReplyOk \in (IF fault = "none" THEN {TRUE} ELSE BOOLEAN) :
      on_whisper(u, m, FALSE, fault, errReplyOk)

\* A direct message.
DirectMessage(u, m) ==
  \E fault \in FaultsFor(u, TRUE) :
    \E errReplyOk \in (IF fault \in {"none", "api"} THEN {TRUE} ELSE BOOLEAN) :
      on_message(u, m, fault, errReplyOk)

RegNext ==
  \E u \in Users :
    \/ \E m \in Messages : Whisper(u, m)
    \/ WhisperUnknown(u, "abc")
    \/ \E m \in Messages : DirectMessage(u, m)

RegInit ==
  /\ InitInstanceWith(FALSE, TRUE) /\ InitResilience /\ InitBotStarted /\ InitRegistration
  /\ cb = NoCallback /\ chat_cmd = NoChatCommand /\ eraze_pending = FALSE
  /\ age_rejected = FALSE
  /\ InitSide

RegSpec == RegInit /\ [][RegNext]_vars

\* A registration a user completed before the bot was started.
StoredRegistration ==
  [type |-> "POP", registration_type |-> "POP",
   data |-> {"name", "age", "gender", "occupation", "country",
             "type_preference", "continent"},
   age |-> 18]

\* A direct message of the erase dialogue, or one that begins a registration.
ErazeMessages == {T_eraze, T_confirm_eraze, "POP", "abc"}

ErazeDialogue(u, m) ==
  \E fault \in {"none", "send", "db", "api"} :
    \E errReplyOk \in (IF fault \in {"none", "api"} THEN {TRUE} ELSE BOOLEAN) :
      on_message(u, m, fault, errReplyOk)

ErazeNext == \E u \in Users, m \in ErazeMessages : ErazeDialogue(u, m)

ErazeInit ==
  /\ InitInstanceWith(FALSE, TRUE) /\ InitResilience /\ InitBotStarted
  /\ registration_sessions = [u \in Users |-> NoSession]
  /\ registrations \in [Users -> {NoRegistration, StoredRegistration}]
  /\ cb = NoCallback /\ chat_cmd = NoChatCommand /\ eraze_pending = FALSE
  /\ age_rejected = FALSE
  /\ InitSide

ErazeSpec == ErazeInit /\ [][ErazeNext]_vars

EmoteNext ==
  \/ \E u \in Users, all \in BOOLEAN, found \in BOOLEAN :
       single_emote(u, all, found)
  \/ \E u \in Users, valid \in BOOLEAN : number_emote(u, valid)
  \/ \E u \in Users, target \in Users, found \in BOOLEAN :
       loop(u, target, found)
  \/ \E u \in Users, completes \in BOOLEAN : StartLoopTask(u, completes)
  \/ \E u \in Users : stop(u)
  \/ \E u \in Users, target \in Users, found \in BOOLEAN :
       stoploop(u, target, found)
  \/ \E t \in 1..MaxTasks : cleanup_loop(t)

EmoteInit ==
  /\ InitInstanceWith(FALSE, TRUE) /\ InitResilience /\ InitBotStarted
  /\ InitRegistration
  /\ cb = NoCallback /\ chat_cmd = NoChatCommand /\ eraze_pending = FALSE
  /\ age_rejected = FALSE
  /\ InitSide

EmoteSpec == EmoteInit /\ [][EmoteNext]_vars

LauncherNext ==
  \/ \E lockOk \in BOOLEAN : launch_bot(lockOk)
  \/ StartRun
  \/ \E outcome \in RunOutcomes : RunEnds(outcome)
  \/ RestartSleepEnds
  \/ signal_handler
  \/ cleanup

LauncherInit ==
  /\ \E psutil \in BOOLEAN : InitInstanceWith(psutil, TRUE)
  /\ InitResilience /\ InitBotEmpty
  /\ InitRegistration
  /\ cb = NoCallback /\ chat_cmd = NoChatCommand /\ eraze_pending = FALSE
  /\ age_rejected = FALSE
  /\ InitSide

LauncherSpec == LauncherInit /\ [][LauncherNext]_vars

\* The event loop runs every step that is ready, and every bot run ends.
LauncherFairSpec == LauncherSpec /\ WF_vars(LauncherNext)

ManagerNext ==
  \/ start
  \/ SupervisedRunReturns
  \/ SupervisedRunRaises
  \/ SupervisorSleepEnds
  \/ stop_manager

ManagerInit ==
  /\ InitInstanceWith(FALSE, TRUE) /\ InitResilience /\ InitBotEmpty
  /\ InitRegistration
  /\ cb = NoCallback /\ chat_cmd = NoChatCommand /\ eraze_pending = FALSE
  /\ age_rejected = FALSE
  /\ InitEmote /\ InitLauncher /\ InitBotManager /\ InitPool /\ InitLate

ManagerSpec == ManagerInit /\ [][ManagerNext]_vars

PoolNext ==
  \/ \E b \in BotIds : managed_connection(b)
  \/ \E b \in BotIds : register_connection_success(b)
  \/ \E b \in BotIds, raised \in BOOLEAN : leave_managed_connection(b, raised)
  \/ \E b \in BotIds : delayed_cleanup(b)
  \/ force_cleanup_all
  \/ \E d \in {5, 110} : Tick(d)

PoolInit ==
  /\ InitInstanceWith(FALSE, TRUE) /\ InitResilience /\ InitBotEmpty
  /\ InitRegistration
  /\ cb = NoCallback /\ chat_cmd = NoChatCommand /\ eraze_pending = FALSE
  /\ age_rejected = FALSE
  /\ InitSide

PoolSpec == PoolInit /\ [][PoolNext]_vars

CollectionNext ==
  \/ \E u \in Users, t \in {"POP", "LOVE"}, v \in Versions, writeOk \in BOOLEAN :
       ContinentAnswer(u, t, v, writeOk)
  \/ \E u \in Users : rem(u)

CollectionInit ==
  /\ InitInstanceWith(FALSE, TRUE) /\ InitResilience
  /\ InitBotStarted /\ db_connected /\ InitRegistration
  /\ cb = NoCallback /\ chat_cmd = NoChatCommand /\ eraze_pending = FALSE
  /\ age_rejected = FALSE
  /\ InitEmote /\ InitLauncher /\ InitPool
  /\ InitBotManager /\ worker_id = 0 /\ ~auto_start
  /\ InitCollection /\ InitConcurrent

CollectionSpec == CollectionInit /\ [][CollectionNext]_vars

(***************************************************************************)
(* The properties.                                                         *)
(***************************************************************************)

\* The registration questions in the order the conversation asks them.
StepOrder == <<"name", "age", "gender", "occupation", "country", "type",
               "continent">>

StepIndex(step) == CHOOSE i \in 1..Len(StepOrder) : StepOrder[i] = step

\* The fields answered before the question `step` is asked.
FieldsBefore(step) ==
  {IF StepOrder[i] = "type" THEN "type_preference" ELSE StepOrder[i] :
     i \in 1..(StepIndex(step) - 1)}

\* C1: a registration session is created at step "name"; whenever its step
\* changes it changes to the step that follows in the order name, age,
\* gender, occupation, country, type, continent; and a session at a step
\* holds an answer for every step before it and for no step after it, so no
\* step is skipped, revisited or taken out of order.
C1_StepsInOrder ==
  [][\A u \in Users :
       LET s == registration_sessions[u]
           t == registration_sessions'[u]
       IN /\ (s = NoSession /\ t # NoSession) =>
               (t.step = "name" /\ t.data = {})
          /\ (s # NoSession /\ t # NoSession /\ t.step # s.step) =>
               /\ StepIndex(s.step) < Len(StepOrder)
               /\ t.step = StepOrder[StepIndex(s.step) + 1]
               /\ t.type = s.type
          /\ t # NoSession =>
               /\ FieldsBefore(t.step) \subseteq t.data
               /\ t.data \subseteq FieldsBefore(t.step) \cup {t.step}
     ]_vars

\* A session has gone through every step up to the last one.
C1_Witness ==
  \E u \in Users :
    /\ registration_sessions[u] # NoSession
    /\ registration_sessions[u].step = "continent"
    /\ registration_sessions[u].data = FieldsBefore("continent")

C3_AtMostOneHolder == Cardinality({p \in Procs : HoldsLock(p)}) <= 1

\* C4: run_with_resilience gives up for the attempt cap exactly when
\* max_reconnect_attempts sessions have failed in a row since the last
\* successful one, never holds another session after that, and a successful
\* session sets the count back to 0 (the counter always equals the number
\* of sessions that failed since the last success).
C4_GivesUpAtCap ==
  /\ reconnect_attempts = failStreak
  /\ stopReason = "max_attempts" => failStreak = max_reconnect_attempts
  /\ rm_pc = "session" => failStreak < max_reconnect_attempts
  /\ (rm_pc = "stopped" /\ failStreak = max_reconnect_attempts) =>
       stopReason \in {"max_attempts", "cancelled"}

\* The manager has given up after max_reconnect_attempts failures in a row.
C4_Witness ==
  /\ rm_pc = "stopped"
  /\ stopReason = "max_attempts"
  /\ reconnect_attempts = max_reconnect_attempts

\* d doubled n times, never going beyond max_delay: min(d * 2^n, max_delay)
RECURSIVE DoubledUpTo(_, _)
DoubledUpTo(d, n) ==
  IF n = 0 \/ d >= max_delay THEN Min(d, max_delay)
  ELSE DoubledUpTo(2 * d, n - 1)

\* C5: the wait before a reconnect is min(base_delay * 2^n, max_delay) with n
\* the number of failures in a row; it is twice the wait before it up to the
\* cap, never shorter than the wait before it, and never above 300 seconds.
C5_BackoffDoublesToCap ==
  rm_pc = "backoff" =>
    /\ lastDelay = DoubledUpTo(base_delay, failStreak)
    /\ lastDelay <= 300
    /\ lastDelay >= prevDelay
    /\ failStreak > 1 => lastDelay = Min(2 * prevDelay, 300)

\* The wait doubles and has just reached the cap.
C5_Witness ==
  /\ rm_pc = "backoff"
  /\ prevDelay = 160
  /\ lastDelay = 300

\* C6: when every connection attempt failed, initialize_services has made
\* exactly three attempts with waits of 5 s and 10 s between them and none
\* after the last, has returned False, and on_start ends with the default
\* bot position, empty hosts, VIPs and subscribers, and the prompt task
\* started.
C6_ThreeAttemptsThenDefaults ==
  /\ (st_pc \in {"post_init", "ready", "start_failed"} /\ ~services_initialized) =>
       /\ db_calls = 3
       /\ sleeps = <<5, 10>>
       /\ hosts = <<>> /\ vips = <<>> /\ subscribers = <<>>
       /\ bot_position = "default"
  /\ (st_pc \in {"ready", "start_failed"} /\ ~services_initialized) =>
       match_prompt_task
  /\ st_pc \in {"connect", "retry_sleep", "fallback"} =>
       (db_calls <= 3 /\ Len(sleeps) <= 2)

\* on_start has completed after three failed connection attempts.
C6_Witness ==
  /\ st_pc = "ready"
  /\ ~services_initialized
  /\ db_calls = 3
  /\ match_prompt_task

\* A callback runs while the error reply of its handler can be sent.
AnswerableCallback ==
  \/ \E u \in Users, m \in Messages, fault \in Faults :
       \/ \E known \in BOOLEAN : on_whisper(u, m, known, fault, TRUE)
       \/ on_message(u, m, fault, TRUE)
  \/ /\ cb'.kind = "chat"
     /\ \E u \in Users, word \in ChatWords, arg \in 0..NumUsers :
          \E present \in BOOLEAN, fault \in Faults :
            on_chat(u, word, arg, present, fault, TRUE)

\* C7: an exception raised while a chat, whisper or direct-message command is
\* handled never leaves the callback, and the sender is sent an error reply
\* (stated for the callbacks whose error reply can be sent).
C7_ExceptionsCaughtAndAnswered ==
  [][(AnswerableCallback /\ cb'.raised) =>
       (~cb'.propagated /\ cb'.error_reply)]_vars

\* The private message m of user u reaches the registration handler, by
\* either callback.
Answered(u, m) ==
  \E fault \in {"none", "send"}, errReplyOk \in BOOLEAN :
    \/ on_whisper(u, m, TRUE, fault, errReplyOk)
    \/ on_message(u, m, fault, errReplyOk)

\* C8: no saved registration has an age below 18; an answer to the age
\* question that is an integer below 18 deletes the session and writes
\* nothing to the registrations.
C8_UnderageNeverRegistered ==
  [][/\ \A u \in Users :
          registrations'[u] # NoRegistration => registrations'[u].age >= 18
     /\ \A u \in Users :
          (registration_sessions[u].step = "age" /\ Answered(u, "17")) =>
            /\ registration_sessions'[u] = NoSession
            /\ registrations' = registrations
    ]_vars

\* C9: the hosts list changes only while the owner's "!addhost" or
\* "!removehost" chat command is handled; no command of another user adds
\* an id to it or removes one from it.
C9_OnlyOwnerChangesHosts ==
  [][(st_pc = "ready" /\ hosts' # hosts) =>
       /\ chat_cmd'.user = owner_id
       /\ chat_cmd'.branch \in {"addhost", "removehost"}
    ]_vars

\* The owner has added a host with "!addhost".
C9_Witness ==
  /\ chat_cmd.user = owner_id
  /\ chat_cmd.branch = "addhost"
  /\ InList(hosts, owner_id)

\* C10: the owner's "!removehost <username>", naming a user who is in the
\* room and in hosts, removes that user's id from hosts, and the list is
\* written to the database when it is connected.
C10_RemoveHostRemoves ==
  [][\A a \in Users :
       (InList(hosts, a)
          /\ on_chat(owner_id, T_bang_removehost, a, TRUE, "none", TRUE)) =>
         /\ ~InList(hosts', a)
         /\ db_connected => db_hosts' = hosts'
    ]_vars

\* C11: registration records are erased only by the owner's "!confirm-eraze"
\* direct message, and only when the owner's direct message before it was
\* "!eraze"; a "!confirm-eraze" not preceded by the owner's "!eraze" deletes
\* nothing.
C11_ErazeNeedsBothSteps ==
  [][(\E v \in Users : registrations[v] # NoRegistration
                        /\ registrations'[v] = NoRegistration) =>
       /\ eraze_pending
       /\ \E fault \in Faults, errReplyOk \in BOOLEAN :
            on_message(owner_id, T_confirm_eraze, fault, errReplyOk)
    ]_vars

\* The running loops that user u started on themselves.
LoopsOf(u) ==
  {t \in DOMAIN loop_tasks : /\ Running(t)
                             /\ loop_tasks[t].starter = u
                             /\ loop_tasks[t].key[2] = u}

\* C12: a user never has more than one running loop of their own, and when
\* stop has run stop_user_loop for the user, none of the user's loops is
\* still running.
C12_OneLoopPerUser ==
  [][\A u \in Users :
       /\ Cardinality(LoopsOf(u)') <= 1
       /\ stop(u) => LoopsOf(u)' = {}
    ]_vars

\* C13: when a bot run ends because main() returned (no exception), the
\* launcher takes it as success and leaves the restart loop for cleanup
\* instead of restarting.
C13_ReturnIsSuccess ==
  [][(ln_pc = "run" /\ ln_pc' # "run" /\ last_run' = "returned") =>
       ln_pc' = "cleanup" /\ restart_count' = restart_count
    ]_vars

\* C14: the bot is run at most max_restarts times, and when launch_bot
\* returns after max_restarts failed runs (no signal stopped it), cleanup
\* has run and the result is False.
C14_LimitReportsFalse ==
  /\ bot_runs <= max_restarts
  /\ (ln_pc = "returned" /\ ln_running /\ bot_runs = max_restarts) =>
       (cleaned /\ ln_result = "False")

\* C15: after a signal that arrived during a bot run, no further bot run
\* starts, and cleanup eventually runs.
C15_SignalLeadsToCleanup ==
  /\ [][signalled => bot_runs' = bot_runs]_vars
  /\ signalled ~> cleaned

\* C16: a BotManager built with auto_start = False or with a worker_id
\* other than 0 never runs the body of its supervisor loop: no bot session
\* is launched, whatever start and stop calls were made.
C16_DisabledNeverLaunches ==
  (worker_id # 0 \/ ~auto_start) =>
    /\ ~session_launched
    /\ ~bot_running
    /\ bm_pc \in {"constructed", "returned"}

C16_Witness ==
  /\ worker_id = 0 /\ ~auto_start
  /\ bm_pc = "returned"
  /\ ~session_launched

\* C17: entering managed_connection for a bot id less than 10 seconds
\* after its last registered attempt raises ConnectionError before the
\* body runs, and changes neither the connection states nor the scheduled
\* cleanups.
C17_CooldownRejects ==
  [][\A b \in BotIds :
       (managed_connection(b) /\ connections[b].tracked
                              /\ connections[b].since < 10) =>
         /\ last_entry' = <<b, "ConnectionError">>
         /\ in_body' = in_body
         /\ connections' = connections
         /\ cleanup_tasks' = cleanup_tasks
    ]_vars

C17_Witness ==
  \E b \in BotIds :
    /\ last_entry = <<b, "ConnectionError">>
    /\ connections[b].since < 10
    /\ connections[b].connected
    /\ cleanup_tasks[b] > 0

\* C18: a call of force_cleanup_all returns, and when it has returned no
\* tracked connection is connected or has a connection id, and no delayed
\* cleanup is pending.
C18_ForceCleanupReturns ==
  [][force_cleanup_all =>
       /\ connection_lock' = "free"
       /\ \A b \in BotIds :
            /\ connections'[b].tracked =>
                 (~connections'[b].connected
                    /\ connections'[b].connection_id = "None")
            /\ cleanup_tasks'[b] = 0
    ]_vars

\* A private message out of ms, sent by user u whose session is at the
\* given step, reaches the registration handler by either callback, with
\* one of the faults and the error reply going out as replies says.
Handled(u, step, ms, faults, replies) ==
  /\ registration_sessions[u].step = step
  /\ \E m \in ms, fault \in faults, errReplyOk \in replies :
       \/ cb'.kind = "whisper" /\ on_whisper(u, m, TRUE, fault, errReplyOk)
       \/ cb'.kind = "message" /\ on_message(u, m, fault, errReplyOk)

\* A registration is written for a session at step continent only, and
\* holds all seven answers.
WrittenAtContinentOnly ==
  \A u \in Users :
    (registrations'[u] # registrations[u] /\ registrations'[u] # NoRegistration) =>
      /\ registration_sessions[u].step = "continent"
      /\ registrations'[u].data = AllAnswers

\* The write succeeded: the registration is stored and the session removed.
SavedAndRemoved(u) ==
  /\ registrations'[u] # NoRegistration
  /\ registrations'[u].data = AllAnswers
  /\ registration_sessions'[u] = NoSession

\* The session is kept at step continent and nothing was written.
KeptAtContinent(u) ==
  /\ registration_sessions'[u].step = "continent"
  /\ registration_sessions'[u].data = AllAnswers
  /\ registrations' = registrations

\* C19 as claimed: a registration is written only for the answer of step
\* continent, after all seven answers; a write that succeeds removes the
\* session, and after a write that fails the session is still at step
\* continent.
C19_FailedWriteKeepsSession ==
  [][/\ WrittenAtContinentOnly
     /\ \A u \in Users :
          /\ (db_connected
                /\ Handled(u, "continent", Messages, {"none", "send"}, BOOLEAN))
               => SavedAndRemoved(u)
          /\ (db_connected
                /\ Handled(u, "continent", Messages, {"db", "db_send"}, BOOLEAN))
               => KeptAtContinent(u)
    ]_vars

\* C19 amended: as claimed, but after a failed write the session is kept
\* only if the notice about it was sent; when sending that notice raises,
\* the except clause deletes the session once its error reply is sent, and
\* the session stays only if that reply fails too.
C19_FailedWriteKeepsSessionIfTold ==
  [][/\ WrittenAtContinentOnly
     /\ \A u \in Users :
          (db_connected /\ registration_sessions[u].step = "continent") =>
            \A fault \in {"none", "send", "db", "db_send"},
               errReplyOk \in BOOLEAN :
              Handled(u, "continent", Messages, {fault}, {errReplyOk}) =>
                CASE fault \in {"none", "send"} -> SavedAndRemoved(u)
                  [] fault = "db" -> KeptAtContinent(u) /\ ~cb'.raised
                  [] fault = "db_send" /\ errReplyOk ->
                       /\ registration_sessions'[u] = NoSession
                       /\ registrations' = registrations
                       /\ cb'.error_reply
                  [] fault = "db_send" /\ ~errReplyOk -> KeptAtContinent(u)
    ]_vars

\* The write of a complete registration failed, the user was told, and the
\* session waits at step continent.
C19_Witness ==
  \E u \in Users :
    /\ db_connected
    /\ registration_sessions[u].step = "continent"
    /\ registration_sessions[u].data = AllAnswers
    /\ registrations[u] = NoRegistration
    /\ cb.kind \in {"whisper", "message"} /\ ~cb.raised

\* C20 as claimed: a non-numeric answer at step age changes neither the
\* session nor the registrations, and the user is prompted again.
C20_NonNumericAgeChangesNothing ==
  [][\A u \in Users :
       Handled(u, "age", {"abc"}, {"none", "send"}, BOOLEAN) =>
         /\ registration_sessions' = registration_sessions
         /\ registrations' = registrations
         /\ ~cb'.raised
    ]_vars

\* C20 amended: that holds when the prompt is sent; when sending the
\* prompt raises, the except clause deletes the session once its error
\* reply is sent, and the session stays as it was if that reply fails too.
\* Nothing is written in any case.
C20_NonNumericAgeRepromptsIfSent ==
  [][\A u \in Users :
       /\ Handled(u, "age", {"abc"}, {"none"}, BOOLEAN) =>
            /\ registration_sessions' = registration_sessions
            /\ registrations' = registrations
            /\ ~cb'.raised
       /\ Handled(u, "age", {"abc"}, {"send"}, {TRUE}) =>
            /\ registration_sessions' =
                 [registration_sessions EXCEPT ![u] = NoSession]
            /\ registrations' = registrations
            /\ cb'.error_reply
       /\ Handled(u, "age", {"abc"}, {"send"}, {FALSE}) =>
            /\ registration_sessions' = registration_sessions
            /\ registrations' = registrations
    ]_vars

\* A non-numeric age was answered with the prompt: the session is still at
\* step age, holding the name only.
C20_Witness ==
  \E u \in Users :
    /\ age_rejected /\ ~cb.raised
    /\ registration_sessions[u].step = "age"
    /\ registration_sessions[u].data = {"name"}

\* The documents of user u in the collection.
DocsOf(u) == {i \in 1..Len(reg_collection) : reg_collection[i]["user_id"] = u}

\* C21: the collection holds at most one document per user_id; the document
\* of a user who completed a registration carries the answers and the type
\* of the last one completed, with type equal to registration_type.
C21_OneDocumentPerUser ==
  \A u \in Users :
    /\ Cardinality(DocsOf(u)) <= 1
    /\ \A i \in DocsOf(u) :
         last_completed[u] # NoData =>
           LET doc == reg_collection[i]
               last == last_completed[u].data
           IN
             /\ \A f \in AllAnswers : doc[f] = last[f]
             /\ doc["type"] = last["type"]
             /\ "registration_type" \in DOMAIN doc
             /\ doc["registration_type"] = doc["type"]

\* Every user has a document, and a user who had a document already has
\* completed a LOVE registration in the last conversation: that document
\* carries it.
C21_Witness ==
  \E u \in Users :
    /\ Len(reg_collection) = NumUsers
    /\ last_completed[u].updated
    /\ last_completed[u].data["type"] = "LOVE"
    /\ last_completed[u].data["name"] = NumVersions
    /\ \E i \in DocsOf(u) : reg_collection[i]["type"] = "LOVE"

(***************************************************************************)
(* PART 9.  Concurrent executions of process_registration_step (main.py).  *)
(*                                                                         *)
(* Each private message is handled by a task of its own; a task gives up   *)
(* the event loop at its awaits only.  With the username known,            *)
(* command_handler and process_direct_message run from the test            *)
(* "user_id in self.registration_sessions" to the first await of the       *)
(* step's branch without giving it up: that is one step of a task.  Every  *)
(* assignment to the session is made before that await; after it a task    *)
(* only sends, and deletes the entry of registration_sessions.             *)
(***************************************************************************)
\* A session that received the answers of the steps before `step`.
SessionAt(step, type) ==
  [type |-> type, step |-> step, data |-> FieldsBefore(step),
   age |-> IF "age" \in FieldsBefore(step) THEN MIN_AGE ELSE 0]

\* del self.registration_sessions[user_id] in task t, whose record is
\* tasks[t]: the task goes on at pcDone, a KeyError takes it to pcError.
DelSession(t, u, tasks, pcDone, pcError) ==
  IF InSession(u)
    THEN /\ registration_sessions' = [registration_sessions EXCEPT ![u] = NoSession]
         /\ cc_removed_by' = [cc_removed_by EXCEPT ![u] = t]
         /\ cc_task' = [tasks EXCEPT ![t].pc = pcDone]
    ELSE /\ UNCHANGED <<registration_sessions, cc_removed_by>>
         /\ cc_task' = [tasks EXCEPT
              ![t].pc = pcError,
              ![t].key_error = IF cc_removed_by[u] = t THEN "own" ELSE "other"]

\* Task t starts process_registration_step for a message m of user u who is
\* in a session, and runs to the first await of the step's branch.
EnterStep(t, u, m) ==
  /\ st_pc = "ready"
  /\ cc_task[t].pc = "idle"
  /\ InSession(u)
  /\ LET s == registration_sessions[u]
         answered == [s EXCEPT !.data = @ \cup {FieldOf(s.step)}]
         go(pc, sess) ==
           /\ registration_sessions' = [registration_sessions EXCEPT ![u] = sess]
           /\ cc_task' = [cc_task EXCEPT ![t].pc = pc, ![t].user = u,
                                         ![t].doc = RegistrationDoc(sess)]
     IN
       IF s.step = "age" THEN
         IF ~IsInt(m) THEN go("send_prompt", s)
         ELSE IF IsUnderage(IntOf(m)) THEN go("send_underage", s)
         ELSE go("send_prompt",
                 [answered EXCEPT !.age = IntOf(m), !.step = NextStep(s.step)])
       ELSE IF s.step = "continent" THEN
         IF db_connected THEN go("save_registration", answered)
         ELSE go("send_unsaved", answered)
       ELSE go("send_prompt", [answered EXCEPT !.step = NextStep(s.step)])
  /\ UNCHANGED <<registrations, cc_removed_by>>
  /\ UNCHANGED <<startVars, cb, chat_cmd, eraze_pending, age_rejected>>
  /\ UNCHANGED <<imVars, rmVars, emVars, lnVars, bmVars, cpVars, dbVars>>

\* The await of save_registration ends in task t: on success the
\* registration is stored, the session deleted and the completion message
\* sent next; otherwise the notice about the failure is sent next.
SaveReturns(t, success) ==
  /\ cc_task[t].pc = "save_registration"
  /\ LET u == cc_task[t].user IN
       IF success
         THEN /\ registrations' = [registrations EXCEPT ![u] = cc_task[t].doc]
              /\ DelSession(t, u, [cc_task EXCEPT ![t].saved = TRUE],
                            "send_completion", "except_send")
         ELSE /\ cc_task' = [cc_task EXCEPT ![t].pc = "send_save_failed"]
              /\ UNCHANGED <<registrations, registration_sessions, cc_removed_by>>
  /\ UNCHANGED <<startVars, cb, chat_cmd, eraze_pending, age_rejected>>
  /\ UNCHANGED <<imVars, rmVars, emVars, lnVars, bmVars, cpVars, dbVars>>

\* The await of a send of the try block ends in task t: the messages for
\* an underage user and for a missing database are followed by the deletion
\* of the session; a send that raises takes the task to the except clause.
SendReturns(t, ok) ==
  /\ cc_task[t].pc \in {"send_prompt", "send_underage", "send_unsaved",
                        "send_save_failed", "send_completion"}
  /\ LET u == cc_task[t].user IN
       IF ~ok
         THEN /\ cc_task' = [cc_task EXCEPT ![t].pc = "except_send"]
              /\ UNCHANGED <<registration_sessions, cc_removed_by>>
       ELSE IF cc_task[t].pc \in {"send_underage", "send_unsaved"}
         THEN DelSession(t, u, cc_task, "returned", "except_send")
       ELSE /\ cc_task' = [cc_task EXCEPT ![t].pc = "returned"]
            /\ UNCHANGED <<registration_sessions, cc_removed_by>>
  /\ UNCHANGED registrations
  /\ UNCHANGED <<startVars, cb, chat_cmd, eraze_pending, age_rejected>>
  /\ UNCHANGED <<imVars, rmVars, emVars, lnVars, bmVars, cpVars, dbVars>>

\* The except clause in task t: the await of its error message ends, and
\* the session is deleted.  What is raised here leaves the function.
ExceptReturns(t, ok) ==
  /\ cc_task[t].pc = "except_send"
  /\ LET u == cc_task[t].user IN
       IF ~ok
         THEN /\ cc_task' = [cc_task EXCEPT ![t].pc = "escaped"]
              /\ UNCHANGED <<registration_sessions, cc_removed_by>>
         ELSE DelSession(t, u, [cc_task EXCEPT ![t].told_error = TRUE],
                         "returned", "escaped")
  /\ UNCHANGED registrations
  /\ UNCHANGED <<startVars, cb, chat_cmd, eraze_pending, age_rejected>>
  /\ UNCHANGED <<imVars, rmVars, emVars, lnVars, bmVars, cpVars, dbVars>>

ConcurrentNext ==
  \/ \E t \in Tasks, u \in Users, m \in {"17", "18", "abc"} : EnterStep(t, u, m)
  \/ \E t \in Tasks, success \in BOOLEAN : SaveReturns(t, success)
  \/ \E t \in Tasks, ok \in BOOLEAN : SendReturns(t, ok)
  \/ \E t \in Tasks, ok \in BOOLEAN : ExceptReturns(t, ok)

\* One user is in a session, at any step.
ConcurrentInit ==
  /\ InitInstanceWith(FALSE, TRUE) /\ InitResilience /\ InitBotStarted
  /\ \E u \in Users, i \in 1..Len(StepOrder), type \in {"POP", "LOVE"} :
       registration_sessions =
         [v \in Users |-> IF v = u THEN SessionAt(StepOrder[i], type)
                          ELSE NoSession]
  /\ registrations = [u \in Users |-> NoRegistration]
  /\ cb = NoCallback /\ chat_cmd = NoChatCommand /\ eraze_pending = FALSE
  /\ age_rejected = FALSE
  /\ InitSide

ConcurrentSpec == ConcurrentInit /\ [][ConcurrentNext]_vars

\* No execution failed on a deletion because another one had removed the
\* session.
NoFailureByTheOther ==
  \A t \in Tasks : cc_task[t].key_error # "other"

\* C22: whatever the interleaving of the executions of
\* process_registration_step for one user, every deletion of the session
\* acts on a session that exists: none raises KeyError, in particular not
\* because another execution removed the session, and no execution that
\* saved the registration reports an error.
C22_DeletionsFindTheSession ==
  /\ NoFailureByTheOther
  /\ \A t \in Tasks :
       /\ cc_task[t].key_error = "none"
       /\ ~(cc_task[t].saved /\ cc_task[t].told_error)

====
